---- MODULE Spec2Model ----
(***************************************************************************)
(* Line-scanning migration scripts of scripts/python-utils:                *)
(*   fix_emissions_complete.py, fix_emissions_handler_final.py and         *)
(*   fix_handlers_robust.py (update_compliance_handler,                    *)
(*   update_emissions_handler, __main__), and the string-replace script    *)
(*   integrate_scope1_scope3_emissions.py.                                 *)
(* A line is its text plus its terminator.  The substring tests of the     *)
(* scripts ('...' in line) are tabulated over the line texts of the model  *)
(* (LineTexts); no pattern of the scripts contains a line terminator.      *)
(***************************************************************************)
EXTENDS Integers, Sequences, FiniteSets, TLC

VARIABLES
  disk,         \* the two handler files: [exists, data], data the lines on disk
  linesep,      \* os.linesep of the platform
  proc,         \* the script that runs or ran last
  stage,        \* its current session
  pc,           \* idle, scanned, writing, returned, done, aborted
  error,        \* the exception that ended the process, or "none"
  lines,        \* the list lines of the session
  output,       \* the list output of the session
  i,            \* the cursor i at the end of the scan
  ghost,        \* where the output lines came from (see St0)
  before,       \* the target file as the session found it
  runs,         \* scripts started so far
  prevSession,  \* last session of the script that ran just before, if it ended well
  prevOut,      \* and the output it wrote
  report        \* the lines the process has printed

vars == <<disk, linesep, proc, stage, pc, error, lines, output, i, ghost,
          before, runs, prevSession, prevOut, report>>

\* ------------------------------------------------------------------------
\* Bounds of the model
\* ------------------------------------------------------------------------
MaxLen == 3
MaxDrop == 2
MaxRuns == 2
MaxPartial == 1

\* ------------------------------------------------------------------------
\* Line texts and the tables of the string operations over them
\* ------------------------------------------------------------------------
LineTexts ==
  {"",
   "\t\t\t\"scope1Ready\": false, // TODO",
   "\t\t\t\"scope1Ready\": false, // TODO: Scope 1",
   "\t\t\t\"scope1Ready\": scope1Total > 0,",
   "\t\t\t\"scope1Ready\": scope1Total > 0,: Scope 1",
   "\t\t\t\"scope3Ready\": false, // TODO",
   "\t\t\t\"scope3Ready\": scope3Total > 0,",
   "\t\t\tTotalScope1Tons: 0, // TODO: Implement Scope 1 calculator (direct emissions)",
   "\t\t\tTotalScope1Tons: 0, // TODO: pending",
   "\t\t\tTotalScope1Tons: scope1Total, calculator (direct emissions)",
   "\t\t\tTotalScope1Tons: scope1TotalTons,",
   "\t\t\tTotalScope2Tons: scope2TotalTons,",
   "\t\t\tTotalScope3Tons: 0, // TODO: Implement Scope 3 calculator (value chain)",
   "\t\t\tTotalScope3Tons: scope3Total, calculator (value chain)",
   "\t\t\tTotalScope3Tons: scope3TotalTons,",
   "\t\t\tresponders.Error(w, http.StatusInternalServerError, \"scope1_calc_failed\", \"failed to calculate scope 1 emissions\")",
   "\t\t\tresponders.Error(w, http.StatusInternalServerError, \"scope2_calc_failed\", \"failed to calculate scope 2 emissions\")",
   "\t\t\tresponders.Error(w, http.StatusInternalServerError, \"scope3_calc_failed\", \"failed to calculate scope 3 emissions\")",
   "\t\t\treturn",
   "\t\t\tscope1Total += rec.EmissionsTonnesCO2e",
   "\t\t\tscope1TotalTons += rec.EmissionsTonnesCO2e",
   "\t\t\tscope2Total += rec.EmissionsTonnesCO2e",
   "\t\t\tscope2TotalTons += rec.EmissionsTonnesCO2e",
   "\t\t\tscope3Total += rec.EmissionsTonnesCO2e",
   "\t\t\tscope3TotalTons += rec.EmissionsTonnesCO2e",
   "\t\t// Aggregate emissions by scope",
   "\t\t// Calculate Scope 1 (direct emissions)",
   "\t\t// Calculate Scope 2 (purchased electricity)",
   "\t\t// Calculate Scope 3 (value chain)",
   "\t\t// Calculate all scopes",
   "\t\tActivityCount:  allRecords,",
   "\t\tActivityCount:  len(records),",
   "\t\tScope1TonsCO2e: 0, // TODO: Implement Scope 1",
   "\t\tScope1TonsCO2e: 0, // TODO: wire up calculator",
   "\t\tScope1TonsCO2e: scope1Total,",
   "\t\tScope2TonsCO2e: scope1Total + scope2Total + scope3Total,",
   "\t\tScope2TonsCO2e: scope2Total,",
   "\t\tScope3TonsCO2e: 0, // TODO: Implement Scope 3",
   "\t\tScope3TonsCO2e: scope3Total,",
   "\t\tTotalTonsCO2e:  scope1Total + scope2Total + scope3Total,",
   "\t\tTotalTonsCO2e:  scope2Total,",
   "\t\tcalculator:    cfg.Scope2Calculator,",
   "\t\tfor _, rec := range scope1Records {",
   "\t\tfor _, rec := range scope2Records {",
   "\t\tfor _, rec := range scope3Records {",
   "\t\tif err != nil {",
   "\t\tlogger: cfg.Logger,",
   "\t\treturn",
   "\t\tscope1Calculator: cfg.Scope1Calculator,",
   "\t\tscope1Records, _ := deps.Scope1Calculator.CalculateBatch(ctx, emissionsActivities)",
   "\t\tscope1Records, err := deps.Scope1Calculator.CalculateBatch(ctx, emissionsActivities)",
   "\t\tscope1Total += rec.EmissionsTonnesCO2e",
   "\t\tscope2Calculator: cfg.Scope2Calculator,",
   "\t\tscope2Records, _ := deps.Scope2Calculator.CalculateBatch(ctx, emissionsActivities)",
   "\t\tscope2Records, _ := h.deps.Scope2Calculator.CalculateBatch(ctx, emissionsActivities)",
   "\t\tscope2Records, err := deps.Scope2Calculator.CalculateBatch(ctx, emissionsActivities)",
   "\t\tscope2Total += rec.EmissionsTonnesCO2e",
   "\t\tscope3Calculator: cfg.Scope3Calculator,",
   "\t\tscope3Records, _ := deps.Scope3Calculator.CalculateBatch(ctx, emissionsActivities)",
   "\t\tscope3Records, err := deps.Scope3Calculator.CalculateBatch(ctx, emissionsActivities)",
   "\t\tscope3Total += rec.EmissionsTonnesCO2e",
   "\t\tvar scope1Total, scope1Total + scope2Total + scope3Total, scope3Total float64",
   "\t\tvar scope1Total, scope2Total, scope3Total float64",
   "\t\tvar scope1TotalTons, scope2TotalTons, scope3TotalTons float64",
   "\t\tvar scope2Total float64",
   "\t\tvar scope2TotalTons float64",
   "\t\t}",
   "\t// Calculate all scopes",
   "\t// Calculate emissions for all scopes",
   "\t// Combine all scope records",
   "\t// Convert to response format",
   "\tScope1Calculator *emissions.Scope1Calculator",
   "\tScope2Calculator *emissions.Scope2Calculator",
   "\tScope3Calculator *emissions.Scope3Calculator",
   "\tallRecords := len(scope1Records) + len(scope2Records) + len(scope3Records)",
   "\tallRecords := make([]emissions.EmissionRecord, 0, len(scope1Records)+len(scope2Records)+len(scope3Records))",
   "\tallRecords = append(allRecords, scope1Records...)",
   "\tallRecords = append(allRecords, scope2Records...)",
   "\tallRecords = append(allRecords, scope3Records...)",
   "\tcache struct {",
   "\tcalculator    *emissions.Scope2Calculator",
   "\tfor _, rec := range scope1Records {",
   "\tfor _, rec := range scope2Records {",
   "\tfor _, rec := range scope3Records {",
   "\tfor i, rec := range allRecords {",
   "\tfor i, rec := range records {",
   "\tif err != nil {",
   "\tlogger *slog.Logger",
   "\topts struct{}",
   "\tpageInfo := responders.NewPageInfo(filter.Page, filter.PerPage, len(allRecords))",
   "\tpageInfo := responders.NewPageInfo(filter.Page, filter.PerPage, len(records))",
   "\trecords, err := h.calculator.CalculateBatch(ctx, emissionsActivities)",
   "\tresponse := make([]EmissionRecord, 0, len(allRecords))",
   "\tresponse := make([]EmissionRecord, 0, len(records))",
   "\treturn &EmissionsHandler{",
   "\tscope1Calculator *emissions.Scope1Calculator",
   "\tscope1Records, _ := h.deps.Scope1Calculator.CalculateBatch(ctx, emissionsActivities)",
   "\tscope1Records, _ := h.scope1Calculator.CalculateBatch(ctx, emissionsActivities)",
   "\tscope2Calculator *emissions.Scope2Calculator",
   "\tscope2Records, _ := h.deps.Scope2Calculator.CalculateBatch(ctx, emissionsActivities)",
   "\tscope2Records, err := h.scope2Calculator.CalculateBatch(ctx, emissionsActivities)",
   "\tscope3Calculator *emissions.Scope3Calculator",
   "\tscope3Records, _ := h.deps.Scope3Calculator.CalculateBatch(ctx, emissionsActivities)",
   "\tscope3Records, _ := h.scope3Calculator.CalculateBatch(ctx, emissionsActivities)",
   "\tvar scope1Total, scope1Total + scope2Total + scope3Total, scope3Total float64",
   "\tvar scope1Total, scope2Total, scope3Total float64",
   "\tvar scope2Total float64",
   "\t}",
   "\t} // totals",
   "// end of file",
   "package handlers",
   "type ComplianceHandlerDeps struct {",
   "type EmissionsHandler struct {",
   "type EmissionsHandlerConfig struct {",
   "}"}

Patterns ==
  {"\t\tActivityCount:  len(records),",
   "\t\tScope1TonsCO2e: 0, // TODO",
   "\t\tScope1TonsCO2e: scope1Total,",
   "\t\tScope3TonsCO2e: 0, // TODO",
   "\t\tScope3TonsCO2e: scope3Total,",
   "\t\tTotalTonsCO2e:  scope2Total,",
   "\t// Calculate emissions for all scopes",
   "\tfor i, rec := range records {",
   "\tpageInfo := responders.NewPageInfo(filter.Page, filter.PerPage, len(records))",
   "\trecords, err := h.calculator.CalculateBatch(ctx, emissionsActivities)",
   "\tresponse := make([]EmissionRecord, 0, len(records))",
   "\treturn &EmissionsHandler{",
   "\"scope1Ready\": false, // TODO",
   "\"scope3Ready\": false, // TODO",
   "Convert to response format",
   "EmissionsTonnesCO2e",
   "Scope1Calculator",
   "Scope1TonsCO2e: 0, // TODO",
   "Scope1TonsCO2e: 0, // TODO: Implement Scope 1",
   "Scope2Calculator",
   "Scope2Calculator *emissions.Scope2Calculator",
   "Scope3Calculator",
   "Scope3TonsCO2e: 0, // TODO",
   "Scope3TonsCO2e: 0, // TODO: Implement Scope 3",
   "Total +=",
   "TotalScope1Tons: 0, // TODO",
   "TotalScope3Tons: 0, // TODO",
   "TotalTonsCO2e:  scope2Total,",
   "calculator    *emissions.Scope2Calculator",
   "calculator:    cfg.Scope2Calculator,",
   "for _, rec := range",
   "for _, rec := range scope",
   "for _, rec := range scope2Records",
   "records, err := h.calculator.CalculateBatch(ctx, emissionsActivities)",
   "return &EmissionsHandler{",
   "scope",
   "scope1Calculator",
   "scope1Records",
   "scope2Calculator",
   "scope2Records, _ := deps.Scope2Calculator.CalculateBatch",
   "scope2Records, _ := h.deps.Scope2Calculator.CalculateBatch",
   "scope2Records, err := deps.Scope2Calculator.CalculateBatch",
   "scope2Total",
   "scope3Calculator",
   "type ComplianceHandlerDeps struct {",
   "type EmissionsHandler struct {",
   "type EmissionsHandlerConfig struct {",
   "var scope1Total, scope2Total, scope3Total float64",
   "var scope2Total",
   "var scope2Total float64",
   "var scope2TotalTons",
   "}"}

Occurs ==
  (
   "\t\tActivityCount:  len(records)," :> {"\t\tActivityCount:  len(records),"} @@
   "\t\tScope1TonsCO2e: 0, // TODO" :> {"\t\tScope1TonsCO2e: 0, // TODO: Implement Scope 1", "\t\tScope1TonsCO2e: 0, // TODO: wire up calculator"} @@
   "\t\tScope1TonsCO2e: scope1Total," :> {"\t\tScope1TonsCO2e: scope1Total,"} @@
   "\t\tScope3TonsCO2e: 0, // TODO" :> {"\t\tScope3TonsCO2e: 0, // TODO: Implement Scope 3"} @@
   "\t\tScope3TonsCO2e: scope3Total," :> {"\t\tScope3TonsCO2e: scope3Total,"} @@
   "\t\tTotalTonsCO2e:  scope2Total," :> {"\t\tTotalTonsCO2e:  scope2Total,"} @@
   "\t// Calculate emissions for all scopes" :> {"\t// Calculate emissions for all scopes"} @@
   "\tfor i, rec := range records {" :> {"\tfor i, rec := range records {"} @@
   "\tpageInfo := responders.NewPageInfo(filter.Page, filter.PerPage, len(records))" :> {"\tpageInfo := responders.NewPageInfo(filter.Page, filter.PerPage, len(records))"} @@
   "\trecords, err := h.calculator.CalculateBatch(ctx, emissionsActivities)" :> {"\trecords, err := h.calculator.CalculateBatch(ctx, emissionsActivities)"} @@
   "\tresponse := make([]EmissionRecord, 0, len(records))" :> {"\tresponse := make([]EmissionRecord, 0, len(records))"} @@
   "\treturn &EmissionsHandler{" :> {"\treturn &EmissionsHandler{"} @@
   "\"scope1Ready\": false, // TODO" :> {"\t\t\t\"scope1Ready\": false, // TODO", "\t\t\t\"scope1Ready\": false, // TODO: Scope 1"} @@
   "\"scope3Ready\": false, // TODO" :> {"\t\t\t\"scope3Ready\": false, // TODO"} @@
   "Convert to response format" :> {"\t// Convert to response format"} @@
   "EmissionsTonnesCO2e" :> {"\t\t\tscope1Total += rec.EmissionsTonnesCO2e", "\t\t\tscope1TotalTons += rec.EmissionsTonnesCO2e", "\t\t\tscope2Total += rec.EmissionsTonnesCO2e", "\t\t\tscope2TotalTons += rec.EmissionsTonnesCO2e", "\t\t\tscope3Total += rec.EmissionsTonnesCO2e", "\t\t\tscope3TotalTons += rec.EmissionsTonnesCO2e", "\t\tscope1Total += rec.EmissionsTonnesCO2e", "\t\tscope2Total += rec.EmissionsTonnesCO2e", "\t\tscope3Total += rec.EmissionsTonnesCO2e"} @@
   "Scope1Calculator" :> {"\t\tscope1Calculator: cfg.Scope1Calculator,", "\t\tscope1Records, _ := deps.Scope1Calculator.CalculateBatch(ctx, emissionsActivities)", "\t\tscope1Records, err := deps.Scope1Calculator.CalculateBatch(ctx, emissionsActivities)", "\tScope1Calculator *emissions.Scope1Calculator", "\tscope1Calculator *emissions.Scope1Calculator", "\tscope1Records, _ := h.deps.Scope1Calculator.CalculateBatch(ctx, emissionsActivities)"} @@
   "Scope1TonsCO2e: 0, // TODO" :> {"\t\tScope1TonsCO2e: 0, // TODO: Implement Scope 1", "\t\tScope1TonsCO2e: 0, // TODO: wire up calculator"} @@
   "Scope1TonsCO2e: 0, // TODO: Implement Scope 1" :> {"\t\tScope1TonsCO2e: 0, // TODO: Implement Scope 1"} @@
   "Scope2Calculator" :> {"\t\tcalculator:    cfg.Scope2Calculator,", "\t\tscope2Calculator: cfg.Scope2Calculator,", "\t\tscope2Records, _ := deps.Scope2Calculator.CalculateBatch(ctx, emissionsActivities)", "\t\tscope2Records, _ := h.deps.Scope2Calculator.CalculateBatch(ctx, emissionsActivities)", "\t\tscope2Records, err := deps.Scope2Calculator.CalculateBatch(ctx, emissionsActivities)", "\tScope2Calculator *emissions.Scope2Calculator", "\tcalculator    *emissions.Scope2Calculator", "\tscope2Calculator *emissions.Scope2Calculator", "\tscope2Records, _ := h.deps.Scope2Calculator.CalculateBatch(ctx, emissionsActivities)"} @@
   "Scope2Calculator *emissions.Scope2Calculator" :> {"\tScope2Calculator *emissions.Scope2Calculator"} @@
   "Scope3Calculator" :> {"\t\tscope3Calculator: cfg.Scope3Calculator,", "\t\tscope3Records, _ := deps.Scope3Calculator.CalculateBatch(ctx, emissionsActivities)", "\t\tscope3Records, err := deps.Scope3Calculator.CalculateBatch(ctx, emissionsActivities)", "\tScope3Calculator *emissions.Scope3Calculator", "\tscope3Calculator *emissions.Scope3Calculator", "\tscope3Records, _ := h.deps.Scope3Calculator.CalculateBatch(ctx, emissionsActivities)"} @@
   "Scope3TonsCO2e: 0, // TODO" :> {"\t\tScope3TonsCO2e: 0, // TODO: Implement Scope 3"} @@
   "Scope3TonsCO2e: 0, // TODO: Implement Scope 3" :> {"\t\tScope3TonsCO2e: 0, // TODO: Implement Scope 3"} @@
   "Total +=" :> {"\t\t\tscope1Total += rec.EmissionsTonnesCO2e", "\t\t\tscope2Total += rec.EmissionsTonnesCO2e", "\t\t\tscope3Total += rec.EmissionsTonnesCO2e", "\t\tscope1Total += rec.EmissionsTonnesCO2e", "\t\tscope2Total += rec.EmissionsTonnesCO2e", "\t\tscope3Total += rec.EmissionsTonnesCO2e"} @@
   "TotalScope1Tons: 0, // TODO" :> {"\t\t\tTotalScope1Tons: 0, // TODO: Implement Scope 1 calculator (direct emissions)", "\t\t\tTotalScope1Tons: 0, // TODO: pending"} @@
   "TotalScope3Tons: 0, // TODO" :> {"\t\t\tTotalScope3Tons: 0, // TODO: Implement Scope 3 calculator (value chain)"} @@
   "TotalTonsCO2e:  scope2Total," :> {"\t\tTotalTonsCO2e:  scope2Total,"} @@
   "calculator    *emissions.Scope2Calculator" :> {"\tcalculator    *emissions.Scope2Calculator"} @@
   "calculator:    cfg.Scope2Calculator," :> {"\t\tcalculator:    cfg.Scope2Calculator,"} @@
   "for _, rec := range" :> {"\t\tfor _, rec := range scope1Records {", "\t\tfor _, rec := range scope2Records {", "\t\tfor _, rec := range scope3Records {", "\tfor _, rec := range scope1Records {", "\tfor _, rec := range scope2Records {", "\tfor _, rec := range scope3Records {"} @@
   "for _, rec := range scope" :> {"\t\tfor _, rec := range scope1Records {", "\t\tfor _, rec := range scope2Records {", "\t\tfor _, rec := range scope3Records {", "\tfor _, rec := range scope1Records {", "\tfor _, rec := range scope2Records {", "\tfor _, rec := range scope3Records {"} @@
   "for _, rec := range scope2Records" :> {"\t\tfor _, rec := range scope2Records {", "\tfor _, rec := range scope2Records {"} @@
   "records, err := h.calculator.CalculateBatch(ctx, emissionsActivities)" :> {"\trecords, err := h.calculator.CalculateBatch(ctx, emissionsActivities)"} @@
   "return &EmissionsHandler{" :> {"\treturn &EmissionsHandler{"} @@
   "scope" :> {"\t\t\t\"scope1Ready\": false, // TODO", "\t\t\t\"scope1Ready\": false, // TODO: Scope 1", "\t\t\t\"scope1Ready\": scope1Total > 0,", "\t\t\t\"scope1Ready\": scope1Total > 0,: Scope 1", "\t\t\t\"scope3Ready\": false, // TODO", "\t\t\t\"scope3Ready\": scope3Total > 0,", "\t\t\tTotalScope1Tons: scope1Total, calculator (direct emissions)", "\t\t\tTotalScope1Tons: scope1TotalTons,", "\t\t\tTotalScope2Tons: scope2TotalTons,", "\t\t\tTotalScope3Tons: scope3Total, calculator (value chain)", "\t\t\tTotalScope3Tons: scope3TotalTons,", "\t\t\tresponders.Error(w, http.StatusInternalServerError, \"scope1_calc_failed\", \"failed to calculate scope 1 emissions\")", "\t\t\tresponders.Error(w, http.StatusInternalServerError, \"scope2_calc_failed\", \"failed to calculate scope 2 emissions\")", "\t\t\tresponders.Error(w, http.StatusInternalServerError, \"scope3_calc_failed\", \"failed to calculate scope 3 emissions\")", "\t\t\tscope1Total += rec.EmissionsTonnesCO2e", "\t\t\tscope1TotalTons += rec.EmissionsTonnesCO2e", "\t\t\tscope2Total += rec.EmissionsTonnesCO2e", "\t\t\tscope2TotalTons += rec.EmissionsTonnesCO2e", "\t\t\tscope3Total += rec.EmissionsTonnesCO2e", "\t\t\tscope3TotalTons += rec.EmissionsTonnesCO2e", "\t\t// Aggregate emissions by scope", "\t\t// Calculate all scopes", "\t\tScope1TonsCO2e: scope1Total,", "\t\tScope2TonsCO2e: scope1Total + scope2Total + scope3Total,", "\t\tScope2TonsCO2e: scope2Total,", "\t\tScope3TonsCO2e: scope3Total,", "\t\tTotalTonsCO2e:  scope1Total + scope2Total + scope3Total,", "\t\tTotalTonsCO2e:  scope2Total,", "\t\tfor _, rec := range scope1Records {", "\t\tfor _, rec := range scope2Records {", "\t\tfor _, rec := range scope3Records {", "\t\tscope1Calculator: cfg.Scope1Calculator,", "\t\tscope1Records, _ := deps.Scope1Calculator.CalculateBatch(ctx, emissionsActivities)", "\t\tscope1Records, err := deps.Scope1Calculator.CalculateBatch(ctx, emissionsActivities)", "\t\tscope1Total += rec.EmissionsTonnesCO2e", "\t\tscope2Calculator: cfg.Scope2Calculator,", "\t\tscope2Records, _ := deps.Scope2Calculator.CalculateBatch(ctx, emissionsActivities)", "\t\tscope2Records, _ := h.deps.Scope2Calculator.CalculateBatch(ctx, emissionsActivities)", "\t\tscope2Records, err := deps.Scope2Calculator.CalculateBatch(ctx, emissionsActivities)", "\t\tscope2Total += rec.EmissionsTonnesCO2e", "\t\tscope3Calculator: cfg.Scope3Calculator,", "\t\tscope3Records, _ := deps.Scope3Calculator.CalculateBatch(ctx, emissionsActivities)", "\t\tscope3Records, err := deps.Scope3Calculator.CalculateBatch(ctx, emissionsActivities)", "\t\tscope3Total += rec.EmissionsTonnesCO2e", "\t\tvar scope1Total, scope1Total + scope2Total + scope3Total, scope3Total float64", "\t\tvar scope1Total, scope2Total, scope3Total float64", "\t\tvar scope1TotalTons, scope2TotalTons, scope3TotalTons float64", "\t\tvar scope2Total float64", "\t\tvar scope2TotalTons float64", "\t// Calculate all scopes", "\t// Calculate emissions for all scopes", "\t// Combine all scope records", "\tallRecords := len(scope1Records) + len(scope2Records) + len(scope3Records)", "\tallRecords := make([]emissions.EmissionRecord, 0, len(scope1Records)+len(scope2Records)+len(scope3Records))", "\tallRecords = append(allRecords, scope1Records...)", "\tallRecords = append(allRecords, scope2Records...)", "\tallRecords = append(allRecords, scope3Records...)", "\tfor _, rec := range scope1Records {", "\tfor _, rec := range scope2Records {", "\tfor _, rec := range scope3Records {", "\tscope1Calculator *emissions.Scope1Calculator", "\tscope1Records, _ := h.deps.Scope1Calculator.CalculateBatch(ctx, emissionsActivities)", "\tscope1Records, _ := h.scope1Calculator.CalculateBatch(ctx, emissionsActivities)", "\tscope2Calculator *emissions.Scope2Calculator", "\tscope2Records, _ := h.deps.Scope2Calculator.CalculateBatch(ctx, emissionsActivities)", "\tscope2Records, err := h.scope2Calculator.CalculateBatch(ctx, emissionsActivities)", "\tscope3Calculator *emissions.Scope3Calculator", "\tscope3Records, _ := h.deps.Scope3Calculator.CalculateBatch(ctx, emissionsActivities)", "\tscope3Records, _ := h.scope3Calculator.CalculateBatch(ctx, emissionsActivities)", "\tvar scope1Total, scope1Total + scope2Total + scope3Total, scope3Total float64", "\tvar scope1Total, scope2Total, scope3Total float64", "\tvar scope2Total float64"} @@
   "scope1Calculator" :> {"\t\tscope1Calculator: cfg.Scope1Calculator,", "\tscope1Calculator *emissions.Scope1Calculator", "\tscope1Records, _ := h.scope1Calculator.CalculateBatch(ctx, emissionsActivities)"} @@
   "scope1Records" :> {"\t\tfor _, rec := range scope1Records {", "\t\tscope1Records, _ := deps.Scope1Calculator.CalculateBatch(ctx, emissionsActivities)", "\t\tscope1Records, err := deps.Scope1Calculator.CalculateBatch(ctx, emissionsActivities)", "\tallRecords := len(scope1Records) + len(scope2Records) + len(scope3Records)", "\tallRecords := make([]emissions.EmissionRecord, 0, len(scope1Records)+len(scope2Records)+len(scope3Records))", "\tallRecords = append(allRecords, scope1Records...)", "\tfor _, rec := range scope1Records {", "\tscope1Records, _ := h.deps.Scope1Calculator.CalculateBatch(ctx, emissionsActivities)", "\tscope1Records, _ := h.scope1Calculator.CalculateBatch(ctx, emissionsActivities)"} @@
   "scope2Calculator" :> {"\t\tscope2Calculator: cfg.Scope2Calculator,", "\tscope2Calculator *emissions.Scope2Calculator", "\tscope2Records, err := h.scope2Calculator.CalculateBatch(ctx, emissionsActivities)"} @@
   "scope2Records, _ := deps.Scope2Calculator.CalculateBatch" :> {"\t\tscope2Records, _ := deps.Scope2Calculator.CalculateBatch(ctx, emissionsActivities)"} @@
   "scope2Records, _ := h.deps.Scope2Calculator.CalculateBatch" :> {"\t\tscope2Records, _ := h.deps.Scope2Calculator.CalculateBatch(ctx, emissionsActivities)", "\tscope2Records, _ := h.deps.Scope2Calculator.CalculateBatch(ctx, emissionsActivities)"} @@
   "scope2Records, err := deps.Scope2Calculator.CalculateBatch" :> {"\t\tscope2Records, err := deps.Scope2Calculator.CalculateBatch(ctx, emissionsActivities)"} @@
   "scope2Total" :> {"\t\t\tTotalScope2Tons: scope2TotalTons,", "\t\t\tscope2Total += rec.EmissionsTonnesCO2e", "\t\t\tscope2TotalTons += rec.EmissionsTonnesCO2e", "\t\tScope2TonsCO2e: scope1Total + scope2Total + scope3Total,", "\t\tScope2TonsCO2e: scope2Total,", "\t\tTotalTonsCO2e:  scope1Total + scope2Total + scope3Total,", "\t\tTotalTonsCO2e:  scope2Total,", "\t\tscope2Total += rec.EmissionsTonnesCO2e", "\t\tvar scope1Total, scope1Total + scope2Total + scope3Total, scope3Total float64", "\t\tvar scope1Total, scope2Total, scope3Total float64", "\t\tvar scope1TotalTons, scope2TotalTons, scope3TotalTons float64", "\t\tvar scope2Total float64", "\t\tvar scope2TotalTons float64", "\tvar scope1Total, scope1Total + scope2Total + scope3Total, scope3Total float64", "\tvar scope1Total, scope2Total, scope3Total float64", "\tvar scope2Total float64"} @@
   "scope3Calculator" :> {"\t\tscope3Calculator: cfg.Scope3Calculator,", "\tscope3Calculator *emissions.Scope3Calculator", "\tscope3Records, _ := h.scope3Calculator.CalculateBatch(ctx, emissionsActivities)"} @@
   "type ComplianceHandlerDeps struct {" :> {"type ComplianceHandlerDeps struct {"} @@
   "type EmissionsHandler struct {" :> {"type EmissionsHandler struct {"} @@
   "type EmissionsHandlerConfig struct {" :> {"type EmissionsHandlerConfig struct {"} @@
   "var scope1Total, scope2Total, scope3Total float64" :> {"\t\tvar scope1Total, scope2Total, scope3Total float64", "\tvar scope1Total, scope2Total, scope3Total float64"} @@
   "var scope2Total" :> {"\t\tvar scope2Total float64", "\t\tvar scope2TotalTons float64", "\tvar scope2Total float64"} @@
   "var scope2Total float64" :> {"\t\tvar scope2Total float64", "\tvar scope2Total float64"} @@
   "var scope2TotalTons" :> {"\t\tvar scope2TotalTons float64"} @@
   "}" :> {"\t\t}", "\topts struct{}", "\t}", "\t} // totals", "}"}
  )

Replaced ==
  {
   <<"\"scope1Ready\": false, // TODO", "\"scope1Ready\": scope1Total > 0,", "\t\t\t\"scope1Ready\": false, // TODO", "\t\t\t\"scope1Ready\": scope1Total > 0,">>,
   <<"\"scope1Ready\": false, // TODO", "\"scope1Ready\": scope1Total > 0,", "\t\t\t\"scope1Ready\": false, // TODO: Scope 1", "\t\t\t\"scope1Ready\": scope1Total > 0,: Scope 1">>,
   <<"\"scope3Ready\": false, // TODO", "\"scope3Ready\": scope3Total > 0,", "\t\t\t\"scope3Ready\": false, // TODO", "\t\t\t\"scope3Ready\": scope3Total > 0,">>,
   <<"0, // TODO: Implement Scope 1", "scope1Total,", "\t\t\tTotalScope1Tons: 0, // TODO: Implement Scope 1 calculator (direct emissions)", "\t\t\tTotalScope1Tons: scope1Total, calculator (direct emissions)">>,
   <<"0, // TODO: Implement Scope 1", "scope1Total,", "\t\tScope1TonsCO2e: 0, // TODO: Implement Scope 1", "\t\tScope1TonsCO2e: scope1Total,">>,
   <<"0, // TODO: Implement Scope 1 calculator (direct emissions)", "scope1TotalTons,", "\t\t\tTotalScope1Tons: 0, // TODO: Implement Scope 1 calculator (direct emissions)", "\t\t\tTotalScope1Tons: scope1TotalTons,">>,
   <<"0, // TODO: Implement Scope 3", "scope3Total,", "\t\t\tTotalScope3Tons: 0, // TODO: Implement Scope 3 calculator (value chain)", "\t\t\tTotalScope3Tons: scope3Total, calculator (value chain)">>,
   <<"0, // TODO: Implement Scope 3", "scope3Total,", "\t\tScope3TonsCO2e: 0, // TODO: Implement Scope 3", "\t\tScope3TonsCO2e: scope3Total,">>,
   <<"0, // TODO: Implement Scope 3 calculator (value chain)", "scope3TotalTons,", "\t\t\tTotalScope3Tons: 0, // TODO: Implement Scope 3 calculator (value chain)", "\t\t\tTotalScope3Tons: scope3TotalTons,">>,
   <<"Scope1TonsCO2e: 0, // TODO: Implement Scope 1", "Scope1TonsCO2e: scope1Total,", "\t\tScope1TonsCO2e: 0, // TODO: Implement Scope 1", "\t\tScope1TonsCO2e: scope1Total,">>,
   <<"Scope3TonsCO2e: 0, // TODO: Implement Scope 3", "Scope3TonsCO2e: scope3Total,", "\t\tScope3TonsCO2e: 0, // TODO: Implement Scope 3", "\t\tScope3TonsCO2e: scope3Total,">>,
   <<"scope2Total,", "scope1Total + scope2Total + scope3Total,", "\t\tScope2TonsCO2e: scope2Total,", "\t\tScope2TonsCO2e: scope1Total + scope2Total + scope3Total,">>,
   <<"scope2Total,", "scope1Total + scope2Total + scope3Total,", "\t\tTotalTonsCO2e:  scope2Total,", "\t\tTotalTonsCO2e:  scope1Total + scope2Total + scope3Total,">>,
   <<"scope2Total,", "scope1Total + scope2Total + scope3Total,", "\t\tvar scope1Total, scope2Total, scope3Total float64", "\t\tvar scope1Total, scope1Total + scope2Total + scope3Total, scope3Total float64">>,
   <<"scope2Total,", "scope1Total + scope2Total + scope3Total,", "\tvar scope1Total, scope2Total, scope3Total float64", "\tvar scope1Total, scope1Total + scope2Total + scope3Total, scope3Total float64">>
  }

Stripped ==
  (
   "" :> "" @@
   "\t\t\t\"scope1Ready\": false, // TODO" :> "\"scope1Ready\": false, // TODO" @@
   "\t\t\t\"scope1Ready\": false, // TODO: Scope 1" :> "\"scope1Ready\": false, // TODO: Scope 1" @@
   "\t\t\t\"scope1Ready\": scope1Total > 0," :> "\"scope1Ready\": scope1Total > 0," @@
   "\t\t\t\"scope1Ready\": scope1Total > 0,: Scope 1" :> "\"scope1Ready\": scope1Total > 0,: Scope 1" @@
   "\t\t\t\"scope3Ready\": false, // TODO" :> "\"scope3Ready\": false, // TODO" @@
   "\t\t\t\"scope3Ready\": scope3Total > 0," :> "\"scope3Ready\": scope3Total > 0," @@
   "\t\t\tTotalScope1Tons: 0, // TODO: Implement Scope 1 calculator (direct emissions)" :> "TotalScope1Tons: 0, // TODO: Implement Scope 1 calculator (direct emissions)" @@
   "\t\t\tTotalScope1Tons: 0, // TODO: pending" :> "TotalScope1Tons: 0, // TODO: pending" @@
   "\t\t\tTotalScope1Tons: scope1Total, calculator (direct emissions)" :> "TotalScope1Tons: scope1Total, calculator (direct emissions)" @@
   "\t\t\tTotalScope1Tons: scope1TotalTons," :> "TotalScope1Tons: scope1TotalTons," @@
   "\t\t\tTotalScope2Tons: scope2TotalTons," :> "TotalScope2Tons: scope2TotalTons," @@
   "\t\t\tTotalScope3Tons: 0, // TODO: Implement Scope 3 calculator (value chain)" :> "TotalScope3Tons: 0, // TODO: Implement Scope 3 calculator (value chain)" @@
   "\t\t\tTotalScope3Tons: scope3Total, calculator (value chain)" :> "TotalScope3Tons: scope3Total, calculator (value chain)" @@
   "\t\t\tTotalScope3Tons: scope3TotalTons," :> "TotalScope3Tons: scope3TotalTons," @@
   "\t\t\tresponders.Error(w, http.StatusInternalServerError, \"scope1_calc_failed\", \"failed to calculate scope 1 emissions\")" :> "responders.Error(w, http.StatusInternalServerError, \"scope1_calc_failed\", \"failed to calculate scope 1 emissions\")" @@
   "\t\t\tresponders.Error(w, http.StatusInternalServerError, \"scope2_calc_failed\", \"failed to calculate scope 2 emissions\")" :> "responders.Error(w, http.StatusInternalServerError, \"scope2_calc_failed\", \"failed to calculate scope 2 emissions\")" @@
   "\t\t\tresponders.Error(w, http.StatusInternalServerError, \"scope3_calc_failed\", \"failed to calculate scope 3 emissions\")" :> "responders.Error(w, http.StatusInternalServerError, \"scope3_calc_failed\", \"failed to calculate scope 3 emissions\")" @@
   "\t\t\treturn" :> "return" @@
   "\t\t\tscope1Total += rec.EmissionsTonnesCO2e" :> "scope1Total += rec.EmissionsTonnesCO2e" @@
   "\t\t\tscope1TotalTons += rec.EmissionsTonnesCO2e" :> "scope1TotalTons += rec.EmissionsTonnesCO2e" @@
   "\t\t\tscope2Total += rec.EmissionsTonnesCO2e" :> "scope2Total += rec.EmissionsTonnesCO2e" @@
   "\t\t\tscope2TotalTons += rec.EmissionsTonnesCO2e" :> "scope2TotalTons += rec.EmissionsTonnesCO2e" @@
   "\t\t\tscope3Total += rec.EmissionsTonnesCO2e" :> "scope3Total += rec.EmissionsTonnesCO2e" @@
   "\t\t\tscope3TotalTons += rec.EmissionsTonnesCO2e" :> "scope3TotalTons += rec.EmissionsTonnesCO2e" @@
   "\t\t// Aggregate emissions by scope" :> "// Aggregate emissions by scope" @@
   "\t\t// Calculate Scope 1 (direct emissions)" :> "// Calculate Scope 1 (direct emissions)" @@
   "\t\t// Calculate Scope 2 (purchased electricity)" :> "// Calculate Scope 2 (purchased electricity)" @@
   "\t\t// Calculate Scope 3 (value chain)" :> "// Calculate Scope 3 (value chain)" @@
   "\t\t// Calculate all scopes" :> "// Calculate all scopes" @@
   "\t\tActivityCount:  allRecords," :> "ActivityCount:  allRecords," @@
   "\t\tActivityCount:  len(records)," :> "ActivityCount:  len(records)," @@
   "\t\tScope1TonsCO2e: 0, // TODO: Implement Scope 1" :> "Scope1TonsCO2e: 0, // TODO: Implement Scope 1" @@
   "\t\tScope1TonsCO2e: 0, // TODO: wire up calculator" :> "Scope1TonsCO2e: 0, // TODO: wire up calculator" @@
   "\t\tScope1TonsCO2e: scope1Total," :> "Scope1TonsCO2e: scope1Total," @@
   "\t\tScope2TonsCO2e: scope1Total + scope2Total + scope3Total," :> "Scope2TonsCO2e: scope1Total + scope2Total + scope3Total," @@
   "\t\tScope2TonsCO2e: scope2Total," :> "Scope2TonsCO2e: scope2Total," @@
   "\t\tScope3TonsCO2e: 0, // TODO: Implement Scope 3" :> "Scope3TonsCO2e: 0, // TODO: Implement Scope 3" @@
   "\t\tScope3TonsCO2e: scope3Total," :> "Scope3TonsCO2e: scope3Total," @@
   "\t\tTotalTonsCO2e:  scope1Total + scope2Total + scope3Total," :> "TotalTonsCO2e:  scope1Total + scope2Total + scope3Total," @@
   "\t\tTotalTonsCO2e:  scope2Total," :> "TotalTonsCO2e:  scope2Total," @@
   "\t\tcalculator:    cfg.Scope2Calculator," :> "calculator:    cfg.Scope2Calculator," @@
   "\t\tfor _, rec := range scope1Records {" :> "for _, rec := range scope1Records {" @@
   "\t\tfor _, rec := range scope2Records {" :> "for _, rec := range scope2Records {" @@
   "\t\tfor _, rec := range scope3Records {" :> "for _, rec := range scope3Records {" @@
   "\t\tif err != nil {" :> "if err != nil {" @@
   "\t\tlogger: cfg.Logger," :> "logger: cfg.Logger," @@
   "\t\treturn" :> "return" @@
   "\t\tscope1Calculator: cfg.Scope1Calculator," :> "scope1Calculator: cfg.Scope1Calculator," @@
   "\t\tscope1Records, _ := deps.Scope1Calculator.CalculateBatch(ctx, emissionsActivities)" :> "scope1Records, _ := deps.Scope1Calculator.CalculateBatch(ctx, emissionsActivities)" @@
   "\t\tscope1Records, err := deps.Scope1Calculator.CalculateBatch(ctx, emissionsActivities)" :> "scope1Records, err := deps.Scope1Calculator.CalculateBatch(ctx, emissionsActivities)" @@
   "\t\tscope1Total += rec.EmissionsTonnesCO2e" :> "scope1Total += rec.EmissionsTonnesCO2e" @@
   "\t\tscope2Calculator: cfg.Scope2Calculator," :> "scope2Calculator: cfg.Scope2Calculator," @@
   "\t\tscope2Records, _ := deps.Scope2Calculator.CalculateBatch(ctx, emissionsActivities)" :> "scope2Records, _ := deps.Scope2Calculator.CalculateBatch(ctx, emissionsActivities)" @@
   "\t\tscope2Records, _ := h.deps.Scope2Calculator.CalculateBatch(ctx, emissionsActivities)" :> "scope2Records, _ := h.deps.Scope2Calculator.CalculateBatch(ctx, emissionsActivities)" @@
   "\t\tscope2Records, err := deps.Scope2Calculator.CalculateBatch(ctx, emissionsActivities)" :> "scope2Records, err := deps.Scope2Calculator.CalculateBatch(ctx, emissionsActivities)" @@
   "\t\tscope2Total += rec.EmissionsTonnesCO2e" :> "scope2Total += rec.EmissionsTonnesCO2e" @@
   "\t\tscope3Calculator: cfg.Scope3Calculator," :> "scope3Calculator: cfg.Scope3Calculator," @@
   "\t\tscope3Records, _ := deps.Scope3Calculator.CalculateBatch(ctx, emissionsActivities)" :> "scope3Records, _ := deps.Scope3Calculator.CalculateBatch(ctx, emissionsActivities)" @@
   "\t\tscope3Records, err := deps.Scope3Calculator.CalculateBatch(ctx, emissionsActivities)" :> "scope3Records, err := deps.Scope3Calculator.CalculateBatch(ctx, emissionsActivities)" @@
   "\t\tscope3Total += rec.EmissionsTonnesCO2e" :> "scope3Total += rec.EmissionsTonnesCO2e" @@
   "\t\tvar scope1Total, scope1Total + scope2Total + scope3Total, scope3Total float64" :> "var scope1Total, scope1Total + scope2Total + scope3Total, scope3Total float64" @@
   "\t\tvar scope1Total, scope2Total, scope3Total float64" :> "var scope1Total, scope2Total, scope3Total float64" @@
   "\t\tvar scope1TotalTons, scope2TotalTons, scope3TotalTons float64" :> "var scope1TotalTons, scope2TotalTons, scope3TotalTons float64" @@
   "\t\tvar scope2Total float64" :> "var scope2Total float64" @@
   "\t\tvar scope2TotalTons float64" :> "var scope2TotalTons float64" @@
   "\t\t}" :> "}" @@
   "\t// Calculate all scopes" :> "// Calculate all scopes" @@
   "\t// Calculate emissions for all scopes" :> "// Calculate emissions for all scopes" @@
   "\t// Combine all scope records" :> "// Combine all scope records" @@
   "\t// Convert to response format" :> "// Convert to response format" @@
   "\tScope1Calculator *emissions.Scope1Calculator" :> "Scope1Calculator *emissions.Scope1Calculator" @@
   "\tScope2Calculator *emissions.Scope2Calculator" :> "Scope2Calculator *emissions.Scope2Calculator" @@
   "\tScope3Calculator *emissions.Scope3Calculator" :> "Scope3Calculator *emissions.Scope3Calculator" @@
   "\tallRecords := len(scope1Records) + len(scope2Records) + len(scope3Records)" :> "allRecords := len(scope1Records) + len(scope2Records) + len(scope3Records)" @@
   "\tallRecords := make([]emissions.EmissionRecord, 0, len(scope1Records)+len(scope2Records)+len(scope3Records))" :> "allRecords := make([]emissions.EmissionRecord, 0, len(scope1Records)+len(scope2Records)+len(scope3Records))" @@
   "\tallRecords = append(allRecords, scope1Records...)" :> "allRecords = append(allRecords, scope1Records...)" @@
   "\tallRecords = append(allRecords, scope2Records...)" :> "allRecords = append(allRecords, scope2Records...)" @@
   "\tallRecords = append(allRecords, scope3Records...)" :> "allRecords = append(allRecords, scope3Records...)" @@
   "\tcache struct {" :> "cache struct {" @@
   "\tcalculator    *emissions.Scope2Calculator" :> "calculator    *emissions.Scope2Calculator" @@
   "\tfor _, rec := range scope1Records {" :> "for _, rec := range scope1Records {" @@
   "\tfor _, rec := range scope2Records {" :> "for _, rec := range scope2Records {" @@
   "\tfor _, rec := range scope3Records {" :> "for _, rec := range scope3Records {" @@
   "\tfor i, rec := range allRecords {" :> "for i, rec := range allRecords {" @@
   "\tfor i, rec := range records {" :> "for i, rec := range records {" @@
   "\tif err != nil {" :> "if err != nil {" @@
   "\tlogger *slog.Logger" :> "logger *slog.Logger" @@
   "\topts struct{}" :> "opts struct{}" @@
   "\tpageInfo := responders.NewPageInfo(filter.Page, filter.PerPage, len(allRecords))" :> "pageInfo := responders.NewPageInfo(filter.Page, filter.PerPage, len(allRecords))" @@
   "\tpageInfo := responders.NewPageInfo(filter.Page, filter.PerPage, len(records))" :> "pageInfo := responders.NewPageInfo(filter.Page, filter.PerPage, len(records))" @@
   "\trecords, err := h.calculator.CalculateBatch(ctx, emissionsActivities)" :> "records, err := h.calculator.CalculateBatch(ctx, emissionsActivities)" @@
   "\tresponse := make([]EmissionRecord, 0, len(allRecords))" :> "response := make([]EmissionRecord, 0, len(allRecords))" @@
   "\tresponse := make([]EmissionRecord, 0, len(records))" :> "response := make([]EmissionRecord, 0, len(records))" @@
   "\treturn &EmissionsHandler{" :> "return &EmissionsHandler{" @@
   "\tscope1Calculator *emissions.Scope1Calculator" :> "scope1Calculator *emissions.Scope1Calculator" @@
   "\tscope1Records, _ := h.deps.Scope1Calculator.CalculateBatch(ctx, emissionsActivities)" :> "scope1Records, _ := h.deps.Scope1Calculator.CalculateBatch(ctx, emissionsActivities)" @@
   "\tscope1Records, _ := h.scope1Calculator.CalculateBatch(ctx, emissionsActivities)" :> "scope1Records, _ := h.scope1Calculator.CalculateBatch(ctx, emissionsActivities)" @@
   "\tscope2Calculator *emissions.Scope2Calculator" :> "scope2Calculator *emissions.Scope2Calculator" @@
   "\tscope2Records, _ := h.deps.Scope2Calculator.CalculateBatch(ctx, emissionsActivities)" :> "scope2Records, _ := h.deps.Scope2Calculator.CalculateBatch(ctx, emissionsActivities)" @@
   "\tscope2Records, err := h.scope2Calculator.CalculateBatch(ctx, emissionsActivities)" :> "scope2Records, err := h.scope2Calculator.CalculateBatch(ctx, emissionsActivities)" @@
   "\tscope3Calculator *emissions.Scope3Calculator" :> "scope3Calculator *emissions.Scope3Calculator" @@
   "\tscope3Records, _ := h.deps.Scope3Calculator.CalculateBatch(ctx, emissionsActivities)" :> "scope3Records, _ := h.deps.Scope3Calculator.CalculateBatch(ctx, emissionsActivities)" @@
   "\tscope3Records, _ := h.scope3Calculator.CalculateBatch(ctx, emissionsActivities)" :> "scope3Records, _ := h.scope3Calculator.CalculateBatch(ctx, emissionsActivities)" @@
   "\tvar scope1Total, scope1Total + scope2Total + scope3Total, scope3Total float64" :> "var scope1Total, scope1Total + scope2Total + scope3Total, scope3Total float64" @@
   "\tvar scope1Total, scope2Total, scope3Total float64" :> "var scope1Total, scope2Total, scope3Total float64" @@
   "\tvar scope2Total float64" :> "var scope2Total float64" @@
   "\t}" :> "}" @@
   "\t} // totals" :> "} // totals" @@
   "// end of file" :> "// end of file" @@
   "package handlers" :> "package handlers" @@
   "type ComplianceHandlerDeps struct {" :> "type ComplianceHandlerDeps struct {" @@
   "type EmissionsHandler struct {" :> "type EmissionsHandler struct {" @@
   "type EmissionsHandlerConfig struct {" :> "type EmissionsHandlerConfig struct {" @@
   "}" :> "}"
  )

Openers ==
  (
   "\t\tfor _, rec := range scope1Records {" :> 1 @@
   "\t\tfor _, rec := range scope2Records {" :> 1 @@
   "\t\tfor _, rec := range scope3Records {" :> 1 @@
   "\t\tif err != nil {" :> 1 @@
   "\tcache struct {" :> 1 @@
   "\tfor _, rec := range scope1Records {" :> 1 @@
   "\tfor _, rec := range scope2Records {" :> 1 @@
   "\tfor _, rec := range scope3Records {" :> 1 @@
   "\tfor i, rec := range allRecords {" :> 1 @@
   "\tfor i, rec := range records {" :> 1 @@
   "\tif err != nil {" :> 1 @@
   "\topts struct{}" :> 1 @@
   "\treturn &EmissionsHandler{" :> 1 @@
   "type ComplianceHandlerDeps struct {" :> 1 @@
   "type EmissionsHandler struct {" :> 1 @@
   "type EmissionsHandlerConfig struct {" :> 1
  )

Closers ==
  (
   "\t\t}" :> 1 @@
   "\topts struct{}" :> 1 @@
   "\t}" :> 1 @@
   "\t} // totals" :> 1 @@
   "}" :> 1
  )

OldScope2Calc ==
  <<"\tscope2Records, _ := h.deps.Scope2Calculator.CalculateBatch(ctx, emissionsActivities)",
    "\tvar scope2Total float64",
    "\tfor _, rec := range scope2Records {",
    "\t\tscope2Total += rec.EmissionsTonnesCO2e",
    "\t}">>

NewAllScopesCalc ==
  <<"\t// Calculate all scopes",
    "\tscope1Records, _ := h.deps.Scope1Calculator.CalculateBatch(ctx, emissionsActivities)",
    "\tscope2Records, _ := h.deps.Scope2Calculator.CalculateBatch(ctx, emissionsActivities)",
    "\tscope3Records, _ := h.deps.Scope3Calculator.CalculateBatch(ctx, emissionsActivities)",
    "",
    "\tvar scope1Total, scope2Total, scope3Total float64",
    "\tfor _, rec := range scope1Records {",
    "\t\tscope1Total += rec.EmissionsTonnesCO2e",
    "\t}",
    "\tfor _, rec := range scope2Records {",
    "\t\tscope2Total += rec.EmissionsTonnesCO2e",
    "\t}",
    "\tfor _, rec := range scope3Records {",
    "\t\tscope3Total += rec.EmissionsTonnesCO2e",
    "\t}">>

ContentReplaces ==
  <<<<"Scope1TonsCO2e: 0, // TODO: Implement Scope 1", "Scope1TonsCO2e: scope1Total,">>,
    <<"Scope3TonsCO2e: 0, // TODO: Implement Scope 3", "Scope3TonsCO2e: scope3Total,">>>>

EndsWith ==
  {
   <<"\t\tscope2Records, _ := h.deps.Scope2Calculator.CalculateBatch(ctx, emissionsActivities)", "\tscope2Records, _ := h.deps.Scope2Calculator.CalculateBatch(ctx, emissionsActivities)", "\t">>,
   <<"\tscope2Records, _ := h.deps.Scope2Calculator.CalculateBatch(ctx, emissionsActivities)", "\tscope2Records, _ := h.deps.Scope2Calculator.CalculateBatch(ctx, emissionsActivities)", "">>
  }

StartsWith ==
  {
   <<"\t}", "\t}", "">>,
   <<"\t} // totals", "\t}", " // totals">>
  }

Concat ==
  {
   <<"", "\t// Calculate all scopes", "\t// Calculate all scopes">>,
   <<"\t", "\t// Calculate all scopes", "\t\t// Calculate all scopes">>,
   <<"\t}", "", "\t}">>,
   <<"\t}", " // totals", "\t} // totals">>
  }

\* ------------------------------------------------------------------------
\* Lines, list indexing and string operations
\* ------------------------------------------------------------------------
\* a line whose text is t, ending in "\n" as the script literals do
Ln(t) == [text |-> t, eol |-> "\n"]

\* lines[k] of a Python list (0-based; callers check the range first)
At(ls, k) == ls[k + 1]

\* lines[k] where k may be negative (Python counts from the end)
PyAt(ls, k) == IF k < 0 THEN ls[Len(ls) + k + 1] ELSE ls[k + 1]

\* pat in line
Contains(pat, line) == line.text \in Occurs[pat]

\* line.replace(old, new)
Replace(line, old, new) ==
  IF \E r \in Replaced : r[1] = old /\ r[2] = new /\ r[3] = line.text
  THEN [line EXCEPT !.text =
          (CHOOSE r \in Replaced : r[1] = old /\ r[2] = new /\ r[3] = line.text)[4]]
  ELSE line

\* line.strip()
Strip(line) == Stripped[line.text]

\* ------------------------------------------------------------------------
\* State of one scan: cursor i, list output, and whether an IndexError was
\* raised.  tag, replaced, regions and fired record, for each output line
\* and each rule, where it came from (unclosed: the blocks and copied loops
\* whose last line was not found; sections: the lines a call-site rule
\* went over; trail: the cursor at the start of each iteration of the main
\* loop); they do not influence the scan.
\* ------------------------------------------------------------------------
St0 ==
  [i |-> 0, out |-> <<>>, err |-> FALSE,
   tag |-> <<>>, replaced |-> {}, regions |-> {}, unclosed |-> {}, fired |-> {},
   sections |-> {}, trail |-> <<>>]

\* an uncaught IndexError ends the scan
Raise(st) == [st EXCEPT !.err = TRUE]

\* output.append('<text>\n') by rule
Emit(st, t, rule) ==
  IF st.err THEN st
  ELSE [st EXCEPT !.out = Append(@, Ln(t)),
                  !.tag = Append(@, [from |-> -1, rule |-> rule])]

\* consecutive output.append('<text>\n') calls by rule
RECURSIVE EmitAll(_, _, _)
EmitAll(st, ts, rule) ==
  IF ts = <<>> THEN st ELSE EmitAll(Emit(st, Head(ts), rule), Tail(ts), rule)

\* output.append('<text>\n') by rule, in place of the line at the cursor
Rewrite(st, t, rule) ==
  IF st.err THEN st
  ELSE [st EXCEPT !.out = Append(@, Ln(t)),
                  !.tag = Append(@, [from |-> st.i, rule |-> rule])]

\* output.append(lines[i]); IndexError when i is past the end
CopyLine(ls, st) ==
  IF st.err THEN st
  ELSE IF st.i >= Len(ls) THEN Raise(st)
  ELSE [st EXCEPT !.out = Append(@, At(ls, st.i)),
                  !.tag = Append(@, [from |-> st.i, rule |-> "copy"])]

\* output.append(line.replace(old, new)) by rule
EmitReplace(ls, st, old, new, rule) ==
  IF st.err THEN st
  ELSE [st EXCEPT !.out = Append(@, Replace(At(ls, st.i), old, new)),
                  !.tag = Append(@, [from |-> st.i, rule |-> rule]),
                  !.fired = @ \cup {rule}]

\* i += 1
Inc(st) == IF st.err THEN st ELSE [st EXCEPT !.i = @ + 1]

\* i += 1 over a line the rule replaces (why: anchor, field, var, placeholder)
\* or leaves out (dedup, aggregation, skipped)
Skip(ls, st, why) ==
  IF st.err THEN st
  ELSE [st EXCEPT !.i = @ + 1,
                  !.replaced = IF st.i < Len(ls) THEN @ \cup {<<st.i, why>>} ELSE @]

\* output.append(lines[i]); i += 1
CopyInc(ls, st) == Inc(CopyLine(ls, st))

Fired(st, rule) == IF st.err THEN st ELSE [st EXCEPT !.fired = @ \cup {rule}]

\* the block opened at line start was taken to end at line st.i, or the end
\* of the list was reached first
Region(ls, st, start) ==
  IF st.err THEN st
  ELSE IF st.i >= Len(ls) THEN [st EXCEPT !.unclosed = @ \cup {<<"block", start>>}]
  ELSE [st EXCEPT !.regions = @ \cup {[start |-> start, end |-> st.i]}]

\* the call-site rule that fired at line start has consumed the lines up to,
\* not including, line st.i
Section(st, start, rule) ==
  IF st.err THEN st
  ELSE [st EXCEPT !.sections = @ \cup {[start |-> start, end |-> st.i, rule |-> rule]}]

\* line = lines[i] at the top of the main loop
Visit(st) == [st EXCEPT !.trail = Append(@, st.i)]

\* ------------------------------------------------------------------------
\* fix_emissions_complete.py
\* ------------------------------------------------------------------------
\* Step 1, inner loop: fields of the EmissionsHandler struct
RECURSIVE CompleteStructFields(_, _)
CompleteStructFields(ls, st) ==
  IF st.i < Len(ls) /\ ~Contains("}", At(ls, st.i))
  THEN IF Contains("calculator    *emissions.Scope2Calculator", At(ls, st.i))
       THEN CompleteStructFields(ls,
              Skip(ls,
                EmitAll(Fired(st, "struct"),
          <<"\tscope1Calculator *emissions.Scope1Calculator",
            "\tscope2Calculator *emissions.Scope2Calculator",
            "\tscope3Calculator *emissions.Scope3Calculator">>, "struct"),
                "field"))
       ELSE IF \/ Contains("scope2Calculator", At(ls, st.i))
               \/ Contains("scope1Calculator", At(ls, st.i))
               \/ Contains("scope3Calculator", At(ls, st.i))
       THEN CompleteStructFields(ls, Skip(ls, st, "dedup"))
       ELSE CompleteStructFields(ls, CopyInc(ls, st))
  ELSE st

\* Step 1: Update EmissionsHandler struct
CompleteStruct(ls, st) ==
  LET body == CompleteStructFields(ls, CopyInc(ls, st))
  IN  Inc(CopyLine(ls, Region(ls, body, st.i)))

\* Step 2, inner loop: fields of the EmissionsHandlerConfig struct
RECURSIVE CompleteConfigFields(_, _)
CompleteConfigFields(ls, st) ==
  IF st.i < Len(ls) /\ ~Contains("}", At(ls, st.i))
  THEN IF Contains("Scope2Calculator *emissions.Scope2Calculator", At(ls, st.i))
       THEN CompleteConfigFields(ls,
              Skip(ls,
                EmitAll(Fired(st, "config"),
          <<"\tScope1Calculator *emissions.Scope1Calculator",
            "\tScope2Calculator *emissions.Scope2Calculator",
            "\tScope3Calculator *emissions.Scope3Calculator">>, "config"),
                "field"))
       ELSE IF \/ Contains("Scope1Calculator", At(ls, st.i))
               \/ Contains("Scope3Calculator", At(ls, st.i))
       THEN CompleteConfigFields(ls, Skip(ls, st, "dedup"))
       ELSE CompleteConfigFields(ls, CopyInc(ls, st))
  ELSE st

\* Step 2: Update EmissionsHandlerConfig
CompleteConfig(ls, st) ==
  LET body == CompleteConfigFields(ls, CopyInc(ls, st))
  IN  Inc(CopyLine(ls, Region(ls, body, st.i)))

\* Step 3, inner loop: fields of the constructor literal
RECURSIVE CompleteCtorFields(_, _)
CompleteCtorFields(ls, st) ==
  IF st.i < Len(ls) /\ ~Contains("}", At(ls, st.i))
  THEN IF Contains("calculator:    cfg.Scope2Calculator,", At(ls, st.i))
       THEN CompleteCtorFields(ls,
              Skip(ls,
                EmitAll(Fired(st, "constructor"),
          <<"\t\tscope1Calculator: cfg.Scope1Calculator,",
            "\t\tscope2Calculator: cfg.Scope2Calculator,",
            "\t\tscope3Calculator: cfg.Scope3Calculator,">>, "constructor"),
                "field"))
       ELSE IF \/ Contains("scope1Calculator", At(ls, st.i))
               \/ Contains("scope2Calculator", At(ls, st.i))
               \/ Contains("scope3Calculator", At(ls, st.i))
       THEN CompleteCtorFields(ls, Skip(ls, st, "dedup"))
       ELSE CompleteCtorFields(ls, CopyInc(ls, st))
  ELSE st

\* Step 3: Update constructor
CompleteCtor(ls, st) ==
  LET body == CompleteCtorFields(ls, CopyInc(ls, st))
  IN  Inc(CopyLine(ls, Region(ls, body, st.i)))

\* Step 4, condition of the loop that skips the aggregation loops:
\*   (A or B and C) if i+1 < len(lines) else (False or D)
CompleteAggregationLine(ls, k) ==
  IF k + 1 < Len(ls)
  THEN \/ Contains("for _, rec := range scope", At(ls, k))
       \/ /\ Contains("scope", At(ls, k))
          /\ Contains("Total +=", At(ls, k + 1))
  ELSE Strip(At(ls, k)) = "}"

RECURSIVE CompleteSkipAggregation(_, _)
CompleteSkipAggregation(ls, st) ==
  IF st.i < Len(ls) /\ CompleteAggregationLine(ls, st.i)
  THEN CompleteSkipAggregation(ls, Skip(ls, st, "aggregation"))
  ELSE st

\* Step 4, loop "Copy scope calculations"
RECURSIVE CompleteListCopy(_, _)
CompleteListCopy(ls, st) ==
  IF st.i < Len(ls) /\ ~Contains("Convert to response format", At(ls, st.i))
  THEN IF Contains("var scope1Total, scope2Total, scope3Total float64", At(ls, st.i))
       THEN CompleteListCopy(ls, CompleteSkipAggregation(ls, Skip(ls, st, "aggregation")))
       ELSE CompleteListCopy(ls, CopyInc(ls, st))
  ELSE st

\* Step 4 with the appends of scope1Records and scope2Records exchanged
CompleteListSwapped(ls, st) ==
  LET copied == CompleteListCopy(ls, CopyInc(ls, Fired(st, "combine")))
      combined ==
        EmitAll(Section(copied, st.i, "combine"),
          <<"",
            "\t// Combine all scope records",
            "\tallRecords := make([]emissions.EmissionRecord, 0, len(scope1Records)+len(scope2Records)+len(scope3Records))",
            "\tallRecords = append(allRecords, scope2Records...)",
            "\tallRecords = append(allRecords, scope1Records...)",
            "\tallRecords = append(allRecords, scope3Records...)",
            "">>, "combine")
  IN  CopyInc(ls, combined)

\* Step 4: First calculation section (listEmissions)
CompleteList(ls, st) ==
  LET copied == CompleteListCopy(ls, CopyInc(ls, Fired(st, "combine")))
      combined ==
        EmitAll(Section(copied, st.i, "combine"),
          <<"",
            "\t// Combine all scope records",
            "\tallRecords := make([]emissions.EmissionRecord, 0, len(scope1Records)+len(scope2Records)+len(scope3Records))",
            "\tallRecords = append(allRecords, scope1Records...)",
            "\tallRecords = append(allRecords, scope2Records...)",
            "\tallRecords = append(allRecords, scope3Records...)",
            "">>, "combine")
  IN  CopyInc(ls, combined)

\* Step 5, loop "Copy error handling"
RECURSIVE CompleteCopyToVar(_, _)
CompleteCopyToVar(ls, st) ==
  IF st.i < Len(ls) /\ ~Contains("var scope2Total", At(ls, st.i))
  THEN CompleteCopyToVar(ls, CopyInc(ls, st))
  ELSE st

\* Step 5, loop "Copy loop body"
RECURSIVE CompleteLoopBody(_, _)
CompleteLoopBody(ls, st) ==
  IF st.i < Len(ls) /\ ~Contains("}", At(ls, st.i))
  THEN CompleteLoopBody(ls, CopyInc(ls, st))
  ELSE st

\* Step 5, "Copy scope2 loop": the while runs at most once (break)
CompleteScope2Loop(ls, st) ==
  IF st.err THEN st
  ELSE IF st.i < Len(ls) /\ Contains("for _, rec := range", At(ls, st.i))
  THEN LET body == CompleteLoopBody(ls, CopyInc(ls, st))
       IN  IF body.i >= Len(ls)
           THEN Raise([body EXCEPT !.unclosed = @ \cup {<<"loop", st.i>>}])
           ELSE CopyInc(ls, body)
  ELSE st

\* Step 5: Second calculation section (getSummary)
CompleteSummaryCalc(ls, st) ==
  LET calls ==
        EmitAll(Fired(st, "summary"),
          <<"\t// Calculate all scopes",
            "\tscope1Records, _ := h.scope1Calculator.CalculateBatch(ctx, emissionsActivities)",
            "\tscope2Records, err := h.scope2Calculator.CalculateBatch(ctx, emissionsActivities)">>, "summary")
      handled == CompleteCopyToVar(ls, Skip(ls, calls, "anchor"))
      declared ==
        EmitAll(handled,
          <<"\tscope3Records, _ := h.scope3Calculator.CalculateBatch(ctx, emissionsActivities)",
            "",
            "\tvar scope1Total, scope2Total, scope3Total float64">>, "summary")
      loop1 ==
        EmitAll(Skip(ls, declared, "var"),
          <<"\tfor _, rec := range scope1Records {",
            "\t\tscope1Total += rec.EmissionsTonnesCO2e",
            "\t}">>, "summary")
      loop2 == CompleteScope2Loop(ls, loop1)
  IN  EmitAll(loop2,
          <<"\tfor _, rec := range scope3Records {",
            "\t\tscope3Total += rec.EmissionsTonnesCO2e",
            "\t}",
            "",
            "\tallRecords := len(scope1Records) + len(scope2Records) + len(scope3Records)",
            "">>, "summary")

\* a rule that replaces the line at the cursor by one literal line:
\*   output.append('<text>\n'); i += 1; continue
ReplaceLine(ls, st, t, rule, why) == Skip(ls, Rewrite(Fired(st, rule), t, rule), why)

\* the default branch without its output.append(line)
CompleteDefaultNoAppend(ls, st) == Inc(st)

\* "Default: copy as-is"
CompleteDefault(ls, st) == CopyInc(ls, st)

\* one iteration of the main scan loop
CompleteStep(ls, st) ==
  LET line == At(ls, st.i) IN
  IF Contains("type EmissionsHandler struct {", line) THEN CompleteStruct(ls, st)
  ELSE IF Contains("type EmissionsHandlerConfig struct {", line) THEN CompleteConfig(ls, st)
  ELSE IF Contains("\treturn &EmissionsHandler{", line) THEN CompleteCtor(ls, st)
  ELSE IF /\ Contains("\t// Calculate emissions for all scopes", line)
          /\ st.i + 1 >= Len(ls)
       THEN Raise(st)
  ELSE IF /\ Contains("\t// Calculate emissions for all scopes", line)
          /\ Contains("scope1Records", At(ls, st.i + 1))
       THEN CompleteList(ls, st)
  ELSE IF Contains("\tresponse := make([]EmissionRecord, 0, len(records))", line)
       THEN ReplaceLine(ls, st, "\tresponse := make([]EmissionRecord, 0, len(allRecords))", "response", "anchor")
  ELSE IF Contains("\tfor i, rec := range records {", line)
       THEN ReplaceLine(ls, st, "\tfor i, rec := range allRecords {", "range", "anchor")
  ELSE IF Contains("\tpageInfo := responders.NewPageInfo(filter.Page, filter.PerPage, len(records))", line)
       THEN ReplaceLine(ls, st, "\tpageInfo := responders.NewPageInfo(filter.Page, filter.PerPage, len(allRecords))", "pageInfo", "anchor")
  ELSE IF Contains("\trecords, err := h.calculator.CalculateBatch(ctx, emissionsActivities)", line)
       THEN CompleteSummaryCalc(ls, st)
  ELSE IF \/ Contains("\t\tScope1TonsCO2e: 0, // TODO", line)
          \/ Contains("\t\tScope1TonsCO2e: scope1Total,", line)
       THEN ReplaceLine(ls, st, "\t\tScope1TonsCO2e: scope1Total,", "scope1", "placeholder")
  ELSE IF \/ Contains("\t\tScope3TonsCO2e: 0, // TODO", line)
          \/ Contains("\t\tScope3TonsCO2e: scope3Total,", line)
       THEN ReplaceLine(ls, st, "\t\tScope3TonsCO2e: scope3Total,", "scope3", "placeholder")
  ELSE IF Contains("\t\tTotalTonsCO2e:  scope2Total,", line)
       THEN ReplaceLine(ls, st, "\t\tTotalTonsCO2e:  scope1Total + scope2Total + scope3Total,", "total", "placeholder")
  ELSE IF Contains("\t\tActivityCount:  len(records),", line)
       THEN ReplaceLine(ls, st, "\t\tActivityCount:  allRecords,", "count", "anchor")
  ELSE CompleteDefault(ls, st)

\* the main scan loop: while i < len(lines)
RECURSIVE CompleteScan(_, _)
CompleteScan(ls, st) ==
  IF st.err \/ st.i >= Len(ls) THEN st ELSE CompleteScan(ls, CompleteStep(ls, Visit(st)))

\* ------------------------------------------------------------------------
\* fix_emissions_handler_final.py
\* ------------------------------------------------------------------------
\* Step 1, inner loop
RECURSIVE FinalStructFields(_, _)
FinalStructFields(ls, st) ==
  IF st.i < Len(ls) /\ ~Contains("}", At(ls, st.i))
  THEN IF Contains("calculator    *emissions.Scope2Calculator", At(ls, st.i))
       THEN FinalStructFields(ls,
              Skip(ls,
                EmitAll(Fired(st, "struct"),
          <<"\tscope1Calculator *emissions.Scope1Calculator",
            "\tscope2Calculator *emissions.Scope2Calculator",
            "\tscope3Calculator *emissions.Scope3Calculator">>, "struct"),
                "field"))
       ELSE FinalStructFields(ls, CopyInc(ls, st))
  ELSE st

\* Step 1: Update EmissionsHandler struct to have all three calculators
FinalStruct(ls, st) ==
  LET body == FinalStructFields(ls, CopyInc(ls, st))
  IN  Inc(CopyLine(ls, Region(ls, body, st.i)))

\* Step 2, inner loop
RECURSIVE FinalConfigFields(_, _)
FinalConfigFields(ls, st) ==
  IF st.i < Len(ls) /\ ~Contains("}", At(ls, st.i))
  THEN IF Contains("Scope2Calculator *emissions.Scope2Calculator", At(ls, st.i))
       THEN FinalConfigFields(ls,
              Skip(ls,
                EmitAll(Fired(st, "config"),
          <<"\tScope1Calculator *emissions.Scope1Calculator",
            "\tScope2Calculator *emissions.Scope2Calculator",
            "\tScope3Calculator *emissions.Scope3Calculator">>, "config"),
                "field"))
       ELSE FinalConfigFields(ls, CopyInc(ls, st))
  ELSE st

\* Step 2: Update EmissionsHandlerConfig
FinalConfig(ls, st) ==
  LET body == FinalConfigFields(ls, CopyInc(ls, st))
  IN  Inc(CopyLine(ls, Region(ls, body, st.i)))

\* Step 3, inner loop
RECURSIVE FinalCtorFields(_, _)
FinalCtorFields(ls, st) ==
  IF st.i < Len(ls) /\ ~Contains("}", At(ls, st.i))
  THEN IF Contains("calculator:    cfg.Scope2Calculator,", At(ls, st.i))
       THEN FinalCtorFields(ls,
              Skip(ls,
                EmitAll(Fired(st, "constructor"),
          <<"\t\tscope1Calculator: cfg.Scope1Calculator,",
            "\t\tscope2Calculator: cfg.Scope2Calculator,",
            "\t\tscope3Calculator: cfg.Scope3Calculator,">>, "constructor"),
                "field"))
       ELSE FinalCtorFields(ls, CopyInc(ls, st))
  ELSE st

\* Step 3: Update NewEmissionsHandler constructor
FinalCtor(ls, st) ==
  LET body == FinalCtorFields(ls, CopyInc(ls, st))
  IN  Inc(CopyLine(ls, Region(ls, body, st.i)))

\* Step 4, loop "Copy error handling"
RECURSIVE FinalCopyToVar(_, _)
FinalCopyToVar(ls, st) ==
  IF st.i < Len(ls) /\ ~Contains("var scope2Total", At(ls, st.i))
  THEN FinalCopyToVar(ls, CopyInc(ls, st))
  ELSE st

\* "Copy scope2 loop", once the loop is entered: append lines[i], i += 1,
\* until the line just copied has '}' and the one before it has marker
\* (lines[i-1], lines[i-2]), or until the end of the list
RECURSIVE CopyLoopBody(_, _, _)
CopyLoopBody(ls, st, marker) ==
  IF st.i < Len(ls)
  THEN LET s == CopyInc(ls, st)
       IN  IF /\ Contains("}", PyAt(ls, s.i - 1))
              /\ Contains(marker, PyAt(ls, s.i - 2))
           THEN s
           ELSE CopyLoopBody(ls, s, marker)
  ELSE [st EXCEPT !.unclosed = @ \cup {<<"loop", st.i>>}]

\* "Copy scope2 loop": while i < len(lines)
CopyLoopUntil(ls, st, marker) ==
  IF st.err \/ st.i >= Len(ls) THEN st ELSE CopyLoopBody(ls, st, marker)

\* Step 4: Update calculations in listEmissions
FinalList(ls, st) ==
  LET calls ==
        EmitAll(Fired(st, "calls"),
          <<"\t// Calculate emissions for all scopes",
            "\tscope1Records, _ := h.scope1Calculator.CalculateBatch(ctx, emissionsActivities)",
            "\tscope2Records, err := h.scope2Calculator.CalculateBatch(ctx, emissionsActivities)">>, "calls")
      handled == FinalCopyToVar(ls, Skip(ls, calls, "anchor"))
      declared ==
        EmitAll(EmitAll(handled,
          <<"\tscope3Records, _ := h.scope3Calculator.CalculateBatch(ctx, emissionsActivities)",
            "">>, "calls"),
          <<"\tvar scope1Total, scope2Total, scope3Total float64">>, "aggregation")
      loop1 ==
        EmitAll(Skip(ls, declared, "var"),
          <<"\tfor _, rec := range scope1Records {",
            "\t\tscope1Total += rec.EmissionsTonnesCO2e",
            "\t}">>, "aggregation")
      loop2 == CopyLoopUntil(ls, loop1, "scope2Total")
  IN  EmitAll(loop2,
          <<"\tfor _, rec := range scope3Records {",
            "\t\tscope3Total += rec.EmissionsTonnesCO2e",
            "\t}">>, "aggregation")

\* a rule that replaces the line at the cursor by line.replace(old, new)
ReplaceIn(ls, st, old, new, rule) == Skip(ls, EmitReplace(ls, st, old, new, rule), "placeholder")

\* "Default: copy as-is"
FinalDefault(ls, st) == CopyInc(ls, st)

\* one iteration of the main scan loop
FinalStep(ls, st) ==
  LET line == At(ls, st.i) IN
  IF Contains("type EmissionsHandler struct {", line) THEN FinalStruct(ls, st)
  ELSE IF Contains("type EmissionsHandlerConfig struct {", line) THEN FinalConfig(ls, st)
  ELSE IF Contains("return &EmissionsHandler{", line) THEN FinalCtor(ls, st)
  ELSE IF Contains("records, err := h.calculator.CalculateBatch(ctx, emissionsActivities)", line)
       THEN FinalList(ls, st)
  ELSE IF Contains("Scope1TonsCO2e: 0, // TODO", line)
       THEN ReplaceIn(ls, st, "0, // TODO: Implement Scope 1", "scope1Total,", "scope1")
  ELSE IF Contains("Scope3TonsCO2e: 0, // TODO", line)
       THEN ReplaceIn(ls, st, "0, // TODO: Implement Scope 3", "scope3Total,", "scope3")
  ELSE IF Contains("TotalTonsCO2e:  scope2Total,", line)
       THEN ReplaceIn(ls, st, "scope2Total,", "scope1Total + scope2Total + scope3Total,", "total")
  ELSE FinalDefault(ls, st)

\* the main scan loop
RECURSIVE FinalScan(_, _)
FinalScan(ls, st) ==
  IF st.err \/ st.i >= Len(ls) THEN st ELSE FinalScan(ls, FinalStep(ls, Visit(st)))

\* ------------------------------------------------------------------------
\* fix_handlers_robust.py: update_compliance_handler
\* ------------------------------------------------------------------------
\* Step 1, inner loop
RECURSIVE ComplianceDepsFields(_, _)
ComplianceDepsFields(ls, st) ==
  IF st.i < Len(ls) /\ ~Contains("}", At(ls, st.i))
  THEN IF Contains("Scope2Calculator", At(ls, st.i))
       THEN ComplianceDepsFields(ls,
              Emit(Inc(CopyLine(ls,
                Emit(Fired(st, "deps"),
                  "\tScope1Calculator *emissions.Scope1Calculator", "deps"))),
                "\tScope3Calculator *emissions.Scope3Calculator", "deps"))
       ELSE ComplianceDepsFields(ls, CopyInc(ls, st))
  ELSE st

\* Step 1: Update ComplianceHandlerDeps struct
ComplianceDeps(ls, st) ==
  LET body == ComplianceDepsFields(ls, CopyInc(ls, st))
  IN  Inc(CopyLine(ls, Region(ls, body, st.i)))

\* Step 2, loop "Copy error handling"
RECURSIVE ComplianceCopyToVar(_, _)
ComplianceCopyToVar(ls, st) ==
  IF st.i < Len(ls) /\ ~Contains("var scope2TotalTons", At(ls, st.i))
  THEN ComplianceCopyToVar(ls, CopyInc(ls, st))
  ELSE st

\* Step 2, loop that moves the cursor to the scope2 loop without copying
RECURSIVE ComplianceSkipToLoop(_, _)
ComplianceSkipToLoop(ls, st) ==
  IF st.i < Len(ls) /\ ~Contains("for _, rec := range scope2Records", At(ls, st.i))
  THEN ComplianceSkipToLoop(ls, Skip(ls, st, "skipped"))
  ELSE st

\* Step 2: Replace Scope 2-only calculation with all three scopes
ComplianceCalc(ls, st) ==
  LET calls ==
        EmitAll(Fired(st, "calls"),
          <<"\t\t// Calculate Scope 1 (direct emissions)",
            "\t\tscope1Records, err := deps.Scope1Calculator.CalculateBatch(ctx, emissionsActivities)",
            "\t\tif err != nil {",
            "\t\t\tresponders.Error(w, http.StatusInternalServerError, \"scope1_calc_failed\", \"failed to calculate scope 1 emissions\")",
            "\t\t\treturn",
            "\t\t}",
            "",
            "\t\t// Calculate Scope 2 (purchased electricity)",
            "\t\tscope2Records, err := deps.Scope2Calculator.CalculateBatch(ctx, emissionsActivities)">>, "calls")
      handled == ComplianceCopyToVar(ls, Skip(ls, calls, "anchor"))
      declared ==
        EmitAll(EmitAll(handled,
          <<"",
            "\t\t// Calculate Scope 3 (value chain)",
            "\t\tscope3Records, err := deps.Scope3Calculator.CalculateBatch(ctx, emissionsActivities)",
            "\t\tif err != nil {",
            "\t\t\tresponders.Error(w, http.StatusInternalServerError, \"scope3_calc_failed\", \"failed to calculate scope 3 emissions\")",
            "\t\t\treturn",
            "\t\t}",
            "">>, "calls"),
          <<"\t\t// Aggregate emissions by scope",
            "\t\tvar scope1TotalTons, scope2TotalTons, scope3TotalTons float64">>, "aggregation")
      loop1 ==
        EmitAll(Skip(ls, declared, "var"),
          <<"\t\tfor _, rec := range scope1Records {",
            "\t\t\tscope1TotalTons += rec.EmissionsTonnesCO2e",
            "\t\t}">>, "aggregation")
      loop2 == CopyLoopUntil(ls, ComplianceSkipToLoop(ls, loop1), "EmissionsTonnesCO2e")
  IN  EmitAll(loop2,
          <<"\t\tfor _, rec := range scope3Records {",
            "\t\t\tscope3TotalTons += rec.EmissionsTonnesCO2e",
            "\t\t}">>, "aggregation")

\* "For the summary handler, expand scope2 to all scopes"
ComplianceSummary(ls, st) ==
  LET declared ==
        EmitAll(EmitAll(Fired(st, "summary"),
          <<"\t\t// Calculate all scopes",
            "\t\tscope1Records, _ := deps.Scope1Calculator.CalculateBatch(ctx, emissionsActivities)",
            "\t\tscope2Records, _ := deps.Scope2Calculator.CalculateBatch(ctx, emissionsActivities)",
            "\t\tscope3Records, _ := deps.Scope3Calculator.CalculateBatch(ctx, emissionsActivities)",
            "">>, "summary"),
          <<"\t\tvar scope1Total, scope2Total, scope3Total float64">>, "aggregation")
      loop1 ==
        EmitAll(Skip(ls, Skip(ls, declared, "anchor"), "var"),
          <<"\t\tfor _, rec := range scope1Records {",
            "\t\t\tscope1Total += rec.EmissionsTonnesCO2e",
            "\t\t}">>, "aggregation")
      loop2 == CopyLoopUntil(ls, loop1, "scope2Total")
  IN  EmitAll(loop2,
          <<"\t\tfor _, rec := range scope3Records {",
            "\t\t\tscope3Total += rec.EmissionsTonnesCO2e",
            "\t\t}">>, "aggregation")

\* "Default: copy line as-is"
ComplianceDefault(ls, st) == CopyInc(ls, st)

\* one iteration of the scan loop of update_compliance_handler
ComplianceStep(ls, st) ==
  LET line == At(ls, st.i) IN
  IF Contains("type ComplianceHandlerDeps struct {", line) THEN ComplianceDeps(ls, st)
  ELSE IF Contains("scope2Records, err := deps.Scope2Calculator.CalculateBatch", line)
       THEN ComplianceCalc(ls, st)
  ELSE IF Contains("TotalScope1Tons: 0, // TODO", line)
       THEN ReplaceIn(ls, st, "0, // TODO: Implement Scope 1 calculator (direct emissions)",
                      "scope1TotalTons,", "scope1")
  ELSE IF Contains("TotalScope3Tons: 0, // TODO", line)
       THEN ReplaceIn(ls, st, "0, // TODO: Implement Scope 3 calculator (value chain)",
                      "scope3TotalTons,", "scope3")
  ELSE IF Contains("\"scope1Ready\": false, // TODO", line)
       THEN ReplaceIn(ls, st, "\"scope1Ready\": false, // TODO",
                      "\"scope1Ready\": scope1Total > 0,", "scope1Ready")
  ELSE IF Contains("\"scope3Ready\": false, // TODO", line)
       THEN ReplaceIn(ls, st, "\"scope3Ready\": false, // TODO",
                      "\"scope3Ready\": scope3Total > 0,", "scope3Ready")
  ELSE IF /\ st.i < Len(ls) - 5
          /\ Contains("scope2Records, _ := deps.Scope2Calculator.CalculateBatch", line)
          /\ Contains("var scope2Total float64", At(ls, st.i + 1))
       THEN ComplianceSummary(ls, st)
  ELSE ComplianceDefault(ls, st)

\* the scan loop of update_compliance_handler
RECURSIVE ComplianceScan(_, _)
ComplianceScan(ls, st) ==
  IF st.err \/ st.i >= Len(ls) THEN st ELSE ComplianceScan(ls, ComplianceStep(ls, Visit(st)))

\* ------------------------------------------------------------------------
\* fix_handlers_robust.py: update_emissions_handler
\* ------------------------------------------------------------------------
\* Variant of EmissionsCalc that writes the scope3 loop ahead of the copied
\* scope2 loop.
EmissionsCalcLoopsSwapped(ls, st) ==
  LET calls ==
        Skip(ls,
          EmitAll(Fired(st, "calls"),
          <<"\t// Calculate all scopes",
            "\tscope1Records, _ := h.deps.Scope1Calculator.CalculateBatch(ctx, emissionsActivities)",
            "\tscope2Records, _ := h.deps.Scope2Calculator.CalculateBatch(ctx, emissionsActivities)",
            "\tscope3Records, _ := h.deps.Scope3Calculator.CalculateBatch(ctx, emissionsActivities)",
            "">>, "calls"),
          "anchor")
      declared ==
        IF calls.i >= Len(ls) THEN Raise(calls)
        ELSE IF Contains("var scope2Total float64", At(ls, calls.i))
        THEN Skip(ls,
               Emit(calls, "\tvar scope1Total, scope2Total, scope3Total float64", "aggregation"),
               "var")
        ELSE calls
      loop1 ==
        EmitAll(declared,
          <<"\tfor _, rec := range scope1Records {",
            "\t\tscope1Total += rec.EmissionsTonnesCO2e",
            "\t}">>, "aggregation")
      loop3 ==
        EmitAll(loop1,
          <<"\tfor _, rec := range scope3Records {",
            "\t\tscope3Total += rec.EmissionsTonnesCO2e",
            "\t}">>, "aggregation")
  IN  CopyLoopUntil(ls, loop3, "scope2Total")

\* "Replace scope2-only calculation with all three scopes"
EmissionsCalc(ls, st) ==
  LET calls ==
        Skip(ls,
          EmitAll(Fired(st, "calls"),
          <<"\t// Calculate all scopes",
            "\tscope1Records, _ := h.deps.Scope1Calculator.CalculateBatch(ctx, emissionsActivities)",
            "\tscope2Records, _ := h.deps.Scope2Calculator.CalculateBatch(ctx, emissionsActivities)",
            "\tscope3Records, _ := h.deps.Scope3Calculator.CalculateBatch(ctx, emissionsActivities)",
            "">>, "calls"),
          "anchor")
      declared ==
        IF calls.i >= Len(ls) THEN Raise(calls)
        ELSE IF Contains("var scope2Total float64", At(ls, calls.i))
        THEN Skip(ls,
               Emit(calls, "\tvar scope1Total, scope2Total, scope3Total float64", "aggregation"),
               "var")
        ELSE calls
      loop1 ==
        EmitAll(declared,
          <<"\tfor _, rec := range scope1Records {",
            "\t\tscope1Total += rec.EmissionsTonnesCO2e",
            "\t}">>, "aggregation")
      loop2 == CopyLoopUntil(ls, loop1, "scope2Total")
  IN  EmitAll(loop2,
          <<"\tfor _, rec := range scope3Records {",
            "\t\tscope3Total += rec.EmissionsTonnesCO2e",
            "\t}">>, "aggregation")

\* "Default: copy line as-is"
EmissionsDefault(ls, st) == CopyInc(ls, st)

\* one iteration of the scan loop of update_emissions_handler
EmissionsStep(ls, st) ==
  LET line == At(ls, st.i) IN
  IF Contains("scope2Records, _ := h.deps.Scope2Calculator.CalculateBatch", line)
       THEN EmissionsCalc(ls, st)
  ELSE IF Contains("Scope1TonsCO2e: 0, // TODO", line)
       THEN ReplaceIn(ls, st, "0, // TODO: Implement Scope 1", "scope1Total,", "scope1")
  ELSE IF Contains("Scope3TonsCO2e: 0, // TODO", line)
       THEN ReplaceIn(ls, st, "0, // TODO: Implement Scope 3", "scope3Total,", "scope3")
  ELSE EmissionsDefault(ls, st)

\* the scan loop of update_emissions_handler
RECURSIVE EmissionsScan(_, _)
EmissionsScan(ls, st) ==
  IF st.err \/ st.i >= Len(ls) THEN st ELSE EmissionsScan(ls, EmissionsStep(ls, Visit(st)))

\* ------------------------------------------------------------------------
\* integrate_scope1_scope3_emissions.py: str.replace on the whole content.
\* The content is kept as its lines; an old text without a line break is
\* replaced inside each line, old_scope2_calc is matched across five lines
\* (it may start inside its first line and end inside its last).
\* ------------------------------------------------------------------------
\* a + b for the texts the replacement joins
Cat(a, b) == (CHOOSE c \in Concat : c[1] = a /\ c[2] = b)[3]

\* content.replace(old, new) for the two TODO texts, in one line
IntegrateTodos(line) ==
  Replace(Replace(line, ContentReplaces[1][1], ContentReplaces[1][2]),
          ContentReplaces[2][1], ContentReplaces[2][2])

\* the rule that changed the line, for the record of where lines came from
IntegrateRule(line) ==
  IF Replace(line, ContentReplaces[1][1], ContentReplaces[1][2]) # line
  THEN "scope1" ELSE "scope3"

\* old_scope2_calc occurs in the content ls, starting in line k
OldCalcAt(ls, k) ==
  /\ k + Len(OldScope2Calc) <= Len(ls)
  /\ \E e \in EndsWith : e[1] = At(ls, k).text /\ e[2] = OldScope2Calc[1]
  /\ \A n \in 2..(Len(OldScope2Calc) - 1) : At(ls, k + n - 1).text = OldScope2Calc[n]
  /\ \A n \in 1..(Len(OldScope2Calc) - 1) : At(ls, k + n - 1).eol = "\n"
  /\ \E s \in StartsWith :
       s[1] = At(ls, k + Len(OldScope2Calc) - 1).text /\ s[2] = OldScope2Calc[Len(OldScope2Calc)]

\* what stands before the occurrence in its first line, and after it in its
\* last line
Before(ls, k) ==
  (CHOOSE e \in EndsWith : e[1] = At(ls, k).text /\ e[2] = OldScope2Calc[1])[3]
After(ls, k) ==
  (CHOOSE s \in StartsWith :
     s[1] = At(ls, k + Len(OldScope2Calc) - 1).text
       /\ s[2] = OldScope2Calc[Len(OldScope2Calc)])[3]

\* the lines that new_all_scopes_calc makes of the occurrence at line k
NewCalcLines(ls, k) ==
  LET last == Len(NewAllScopesCalc) IN
  [n \in 1..last |->
     IF n = 1 THEN Ln(Cat(Before(ls, k), NewAllScopesCalc[1]))
     ELSE IF n = last
     THEN [text |-> Cat(NewAllScopesCalc[last], After(ls, k)),
           eol |-> At(ls, k + Len(OldScope2Calc) - 1).eol]
     ELSE Ln(NewAllScopesCalc[n])]

\* where each of these lines came from: the scope2 loop of the old text is
\* in the new text again, the other lines are new
NewCalcTags(ls, orig, k) ==
  LET new == NewCalcLines(ls, k) IN
  [n \in 1..Len(NewAllScopesCalc) |->
     IF n \in 10..12 /\ new[n] = At(orig, k + n - 8)
     THEN [from |-> k + n - 8, rule |-> "copy"]
     ELSE IF n <= 5 THEN [from |-> -1, rule |-> "calls"]
     ELSE [from |-> -1, rule |-> "aggregation"]]

\* content.replace(old_scope2_calc, new_all_scopes_calc): the occurrences
\* from left to right; st.i is the line the search has reached
RECURSIVE IntegrateCalcs(_, _, _)
IntegrateCalcs(orig, ls, st) ==
  IF st.i >= Len(ls) THEN st
  ELSE IF OldCalcAt(ls, st.i)
  THEN IntegrateCalcs(orig, ls,
         [st EXCEPT !.i = @ + Len(OldScope2Calc),
                    !.out = @ \o NewCalcLines(ls, st.i),
                    !.tag = @ \o NewCalcTags(ls, orig, st.i),
                    !.replaced = @ \cup {<<st.i, "anchor">>, <<st.i + 1, "var">>}
                                   \cup {<<st.i + n, "anchor">> : n \in
                                           {m \in 2..4 : NewCalcLines(ls, st.i)[m + 8] # At(orig, st.i + m)}},
                    !.fired = @ \cup {"calls"}])
  ELSE IntegrateCalcs(orig, ls,
         [st EXCEPT !.i = @ + 1,
                    !.out = Append(@, At(ls, st.i)),
                    !.tag = Append(@,
                              IF At(ls, st.i) = At(orig, st.i)
                              THEN [from |-> st.i, rule |-> "copy"]
                              ELSE [from |-> st.i, rule |-> IntegrateRule(At(orig, st.i))]),
                    !.replaced = IF At(ls, st.i) = At(orig, st.i) THEN @
                                 ELSE @ \cup {<<st.i, "placeholder">>},
                    !.fired = IF At(ls, st.i) = At(orig, st.i) THEN @
                              ELSE @ \cup {IntegrateRule(At(orig, st.i))}])

\* the three replacements of the script, in its order; the script has no
\* cursor
IntegrateScan(ls, st) ==
  LET todos == [k \in DOMAIN ls |-> IntegrateTodos(ls[k])]
  IN  [IntegrateCalcs(ls, todos, st) EXCEPT !.i = 0]

\* ------------------------------------------------------------------------
\* Files, loading and writing back
\* ------------------------------------------------------------------------
EmissionsFile == "internal/api/http/handlers/emissions_handler.go"
ComplianceFile == "internal/api/http/handlers/compliance_handler.go"
Files == {EmissionsFile, ComplianceFile}

\* the sessions (one scan of one file) and the scripts that run them
Scripts ==
  {"fix_emissions_complete", "fix_emissions_handler_final", "fix_handlers_robust",
   "integrate_scope1_scope3_emissions"}

FirstSession(p) ==
  CASE p = "fix_emissions_complete" -> "complete"
    [] p = "fix_emissions_handler_final" -> "final"
    [] p = "fix_handlers_robust" -> "update_compliance_handler"
    [] p = "integrate_scope1_scope3_emissions" -> "integrate_emissions"

\* __main__ of fix_handlers_robust.py calls update_compliance_handler(), then
\* update_emissions_handler(); the other scripts are one session
HasNextSession(p, s) == p = "fix_handlers_robust" /\ s = "update_compliance_handler"

Target(s) == IF s = "update_compliance_handler" THEN ComplianceFile ELSE EmissionsFile

Scan(s, ls) ==
  CASE s = "complete" -> CompleteScan(ls, St0)
    [] s = "final" -> FinalScan(ls, St0)
    [] s = "update_compliance_handler" -> ComplianceScan(ls, St0)
    [] s = "update_emissions_handler" -> EmissionsScan(ls, St0)
    [] s = "integrate_emissions" -> IntegrateScan(ls, St0)

\* open(path, 'r', encoding='utf-8').readlines() (f.read() in the
\* string-replace script): text mode with universal newlines, "\r\n" and
\* "\r" are read as "\n"
ReadLines(data) ==
  [k \in DOMAIN data |->
     [data[k] EXCEPT !.eol = IF @ \in {"\n", "\r\n", "\r"} THEN "\n" ELSE @]]

\* open(path, 'w', encoding='utf-8').writelines(output): text mode, each "\n"
\* is written as os.linesep
WriteLines(out, sep) ==
  [k \in DOMAIN out |-> [out[k] EXCEPT !.eol = IF @ = "\n" THEN sep ELSE @]]

\* the lines session s prints after its write-back (the emoji that starts
\* the first line is left out)
Report(s) ==
  CASE s = "complete" ->
         <<"Complete fix applied to emissions_handler.go",
           "   - Updated all calculator references",
           "   - Combined scope records correctly",
           "   - Fixed all 'records' variable references">>
    [] s = "final" ->
         <<"Successfully updated emissions_handler.go",
           "   - Added Scope1Calculator and Scope3Calculator fields",
           "   - Updated constructor to initialize all three calculators",
           "   - Removed TODO comments",
           "   - Updated EmissionsSummary to include all scopes">>
    [] s = "update_compliance_handler" -> <<"Updated compliance_handler.go">>
    [] s = "update_emissions_handler" -> <<"Updated emissions_handler.go">>
    [] s = "integrate_emissions" ->
         <<"Successfully integrated Scope 1 and Scope 3 calculators into emissions_handler.go",
           "   - Added Scope 1 and Scope 3 calculations",
           "   - Removed TODO comments",
           "   - Updated EmissionsSummary population">>

\* __main__ of fix_handlers_robust.py: the print after the two sessions
MainReport(p, s) ==
  IF p = "fix_handlers_robust" /\ s = "update_emissions_handler"
  THEN <<"", "All handlers updated successfully!">>
  ELSE <<>>

NoGhost ==
  [tag |-> <<>>, replaced |-> {}, regions |-> {}, unclosed |-> {}, fired |-> {},
   sections |-> {}, trail |-> <<>>]

\* with open(...) as f: lines = f.readlines(), then the scan loop of session s.
\* A missing file (FileNotFoundError) or an IndexError in the scan is not
\* caught anywhere: the process ends with a traceback.
ReadAndScan(s) ==
  LET f == Target(s) IN
  /\ before' = disk[f]
  /\ IF ~disk[f].exists
     THEN /\ pc' = "aborted"
          /\ error' = "FileNotFoundError"
          /\ lines' = <<>>
          /\ output' = <<>>
          /\ i' = 0
          /\ ghost' = NoGhost
     ELSE LET ls == ReadLines(disk[f].data)
              r == Scan(s, ls)
          IN  /\ lines' = ls
              /\ output' = r.out
              /\ i' = r.i
              /\ ghost' = [tag |-> r.tag, replaced |-> r.replaced, regions |-> r.regions,
                           unclosed |-> r.unclosed, fired |-> r.fired,
                           sections |-> r.sections, trail |-> r.trail]
              /\ pc' = IF r.err THEN "aborted" ELSE "scanned"
              /\ error' = IF r.err THEN "IndexError" ELSE "none"

\* a script is started from the shell, on the files as found or as the
\* previous script left them
Launch(p) ==
  /\ pc \in {"idle", "done"}
  /\ runs < MaxRuns
  /\ runs' = runs + 1
  /\ proc' = p
  /\ stage' = FirstSession(p)
  /\ prevSession' = IF pc = "done" THEN stage ELSE "none"
  /\ prevOut' = IF pc = "done" THEN output ELSE <<>>
  /\ report' = <<>>
  /\ ReadAndScan(FirstSession(p))
  /\ UNCHANGED <<disk, linesep>>

\* fix_handlers_robust.py __main__: update_compliance_handler() has returned,
\* update_emissions_handler() is called
NextSession ==
  /\ pc = "returned"
  /\ HasNextSession(proc, stage)
  /\ stage' = "update_emissions_handler"
  /\ ReadAndScan("update_emissions_handler")
  /\ UNCHANGED <<disk, linesep, proc, runs, prevSession, prevOut, report>>

\* open(path, 'w', encoding='utf-8'): the file is created or truncated
OpenForWrite ==
  /\ pc = "scanned"
  /\ disk' = [disk EXCEPT ![Target(stage)] = [exists |-> TRUE, data |-> <<>>]]
  /\ pc' = "writing"
  /\ UNCHANGED <<error, linesep, proc, stage, lines, output, i, ghost, before, runs, prevSession, prevOut, report>>

\* f.writelines(output), the close at the end of the with block, and the
\* print calls that follow it
WriteBack ==
  /\ pc = "writing"
  /\ disk' = [disk EXCEPT ![Target(stage)] =
                [exists |-> TRUE, data |-> WriteLines(output, linesep)]]
  /\ pc' = IF HasNextSession(proc, stage) THEN "returned" ELSE "done"
  /\ report' = report \o Report(stage) \o MainReport(proc, stage)
  /\ UNCHANGED <<error, linesep, proc, stage, lines, output, i, ghost, before, runs, prevSession, prevOut>>

\* the write fails with an OSError after n lines (disk full, file locked)
WriteFails ==
  /\ pc = "writing"
  /\ Len(output) > 0
  /\ \E n \in 0..MaxPartial :
       /\ n < Len(output)
       /\ disk' = [disk EXCEPT ![Target(stage)] =
                     [exists |-> TRUE,
                      data |-> SubSeq(WriteLines(output, linesep), 1, n)]]
  /\ pc' = "aborted"
  /\ error' = "OSError"
  /\ UNCHANGED <<linesep, proc, stage, lines, output, i, ghost, before, runs, prevSession, prevOut, report>>

\* ------------------------------------------------------------------------
\* Initial file contents
\* ------------------------------------------------------------------------
\* s without its k-th line
RemoveAt(s, k) == SubSeq(s, 1, k - 1) \o SubSeq(s, k + 1, Len(s))

\* the files obtained from s by deleting at most n lines
RECURSIVE Drops(_, _)
Drops(s, n) ==
  IF n = 0 THEN {s}
  ELSE LET d == Drops(s, n - 1)
       IN  d \cup UNION {{RemoveAt(t, k) : k \in 1..Len(t)} : t \in d}

LnAll(ts) == [k \in DOMAIN ts |-> Ln(ts[k])]

\* emissions_handler.go: the EmissionsHandler struct before the migration,
\* after it, and with a nested block
StructBlocks ==
  {<<"type EmissionsHandler struct {",
     "\tcalculator    *emissions.Scope2Calculator",
     "\tlogger *slog.Logger",
     "}">>,
   <<"type EmissionsHandler struct {",
     "\tscope1Calculator *emissions.Scope1Calculator",
     "\tscope2Calculator *emissions.Scope2Calculator",
     "\tscope3Calculator *emissions.Scope3Calculator",
     "}">>,
   <<"type EmissionsHandler struct {",
     "\tcalculator    *emissions.Scope2Calculator",
     "\tcache struct {",
     "\t}",
     "}">>}

ConfigBlocks ==
  {<<"type EmissionsHandlerConfig struct {",
     "\tScope2Calculator *emissions.Scope2Calculator",
     "}">>,
   <<"type EmissionsHandlerConfig struct {",
     "\tScope1Calculator *emissions.Scope1Calculator",
     "\tScope2Calculator *emissions.Scope2Calculator",
     "\tScope3Calculator *emissions.Scope3Calculator",
     "}">>,
   <<"type EmissionsHandlerConfig struct {",
     "\topts struct{}",
     "\tScope2Calculator *emissions.Scope2Calculator",
     "}">>}

CtorBlocks ==
  {<<"\treturn &EmissionsHandler{",
     "\t\tcalculator:    cfg.Scope2Calculator,",
     "\t\tlogger: cfg.Logger,",
     "\t}">>,
   <<"\treturn &EmissionsHandler{",
     "\t\tscope1Calculator: cfg.Scope1Calculator,",
     "\t\tscope2Calculator: cfg.Scope2Calculator,",
     "\t\tscope3Calculator: cfg.Scope3Calculator,",
     "\t}">>}

\* listEmissions as fix_emissions_handler_final.py leaves it, alone and
\* followed by the calculation of getSummary
ListSections ==
  {<<"\t// Calculate emissions for all scopes",
     "\tscope1Records, _ := h.scope1Calculator.CalculateBatch(ctx, emissionsActivities)",
     "\tvar scope1Total, scope2Total, scope3Total float64",
     "\tfor _, rec := range scope1Records {",
     "\t\tscope1Total += rec.EmissionsTonnesCO2e",
     "\t}",
     "\t// Convert to response format",
     "\tpageInfo := responders.NewPageInfo(filter.Page, filter.PerPage, len(records))">>,
   <<"\t// Calculate emissions for all scopes",
     "\tscope1Records, _ := h.scope1Calculator.CalculateBatch(ctx, emissionsActivities)",
     "\t// Convert to response format",
     "\trecords, err := h.calculator.CalculateBatch(ctx, emissionsActivities)",
     "\tvar scope2Total float64">>}

\* getSummary before the migration, and the calls of listEmissions and of
\* getSummary before the migration
SummarySections ==
  {<<"\trecords, err := h.calculator.CalculateBatch(ctx, emissionsActivities)",
     "\tif err != nil {",
     "\t}",
     "\tvar scope2Total float64",
     "\tfor _, rec := range scope2Records {",
     "\t\tscope2Total += rec.EmissionsTonnesCO2e",
     "\t}",
     "\t\tScope1TonsCO2e: 0, // TODO: Implement Scope 1",
     "\t\tTotalTonsCO2e:  scope2Total,">>,
   <<"\trecords, err := h.calculator.CalculateBatch(ctx, emissionsActivities)",
     "\tif err != nil {",
     "\t}",
     "\trecords, err := h.calculator.CalculateBatch(ctx, emissionsActivities)",
     "\tvar scope2Total float64",
     "\tfor _, rec := range scope2Records {",
     "\t\tscope2Total += rec.EmissionsTonnesCO2e",
     "\t}">>}

\* the summary calculation that update_emissions_handler and
\* integrate_scope1_scope3_emissions.py migrate, also indented further and
\* with a comment after the closing brace
DepsCallSections ==
  {<<"\tscope2Records, _ := h.deps.Scope2Calculator.CalculateBatch(ctx, emissionsActivities)",
     "\tvar scope2Total float64",
     "\tfor _, rec := range scope2Records {",
     "\t\tscope2Total += rec.EmissionsTonnesCO2e",
     "\t}",
     "\t\tScope1TonsCO2e: 0, // TODO: Implement Scope 1",
     "\t\tScope3TonsCO2e: 0, // TODO: Implement Scope 3">>,
   <<"\t\tScope1TonsCO2e: 0, // TODO: wire up calculator",
     "\t\tScope2TonsCO2e: scope2Total,",
     "\t\tActivityCount:  len(records),">>,
   <<"\t\tscope2Records, _ := h.deps.Scope2Calculator.CalculateBatch(ctx, emissionsActivities)",
     "\tvar scope2Total float64",
     "\tfor _, rec := range scope2Records {",
     "\t\tscope2Total += rec.EmissionsTonnesCO2e",
     "\t} // totals">>}

\* compliance_handler.go: the deps struct
DepsBlocks ==
  {<<"type ComplianceHandlerDeps struct {",
     "\tScope2Calculator *emissions.Scope2Calculator",
     "}">>,
   <<"type ComplianceHandlerDeps struct {",
     "\tScope1Calculator *emissions.Scope1Calculator",
     "\tScope2Calculator *emissions.Scope2Calculator",
     "\tScope3Calculator *emissions.Scope3Calculator",
     "}">>,
   <<"type ComplianceHandlerDeps struct {",
     "\topts struct{}",
     "\tScope2Calculator *emissions.Scope2Calculator",
     "}">>}

\* compliance_handler.go: the CSRD report calculation
ReportSections ==
  {<<"\t\tscope2Records, err := deps.Scope2Calculator.CalculateBatch(ctx, emissionsActivities)",
     "\t\tif err != nil {",
     "\t\t\treturn",
     "\t\t}",
     "",
     "\t\tvar scope2TotalTons float64",
     "\t\tfor _, rec := range scope2Records {",
     "\t\t\tscope2TotalTons += rec.EmissionsTonnesCO2e",
     "\t\t}",
     "\t\t\tTotalScope1Tons: 0, // TODO: Implement Scope 1 calculator (direct emissions)",
     "\t\t\tTotalScope3Tons: 0, // TODO: Implement Scope 3 calculator (value chain)">>,
   <<"\t\tscope2Records, err := deps.Scope2Calculator.CalculateBatch(ctx, emissionsActivities)",
     "\t\tvar scope2TotalTons float64",
     "// end of file",
     "\t\tfor _, rec := range scope2Records {",
     "\t\t\tscope2TotalTons += rec.EmissionsTonnesCO2e",
     "\t\t}",
     "\t\t\tTotalScope1Tons: 0, // TODO: pending">>}

\* compliance_handler.go: the summary handler
ReadySections ==
  {<<"\t\tscope2Records, _ := deps.Scope2Calculator.CalculateBatch(ctx, emissionsActivities)",
     "\t\tvar scope2Total float64",
     "\t\tfor _, rec := range scope2Records {",
     "\t\t\tscope2Total += rec.EmissionsTonnesCO2e",
     "\t\t}",
     "\t\t\t\"scope1Ready\": false, // TODO",
     "\t\t\t\"scope3Ready\": false, // TODO",
     "package handlers",
     "// end of file">>}

\* lines no rule looks for, with the line terminators a file may have
PlainTexts == {"package handlers", "// end of file"}
Terminators == {"\n", "\r\n"}

RECURSIVE SeqsUpTo(_, _)
SeqsUpTo(S, n) ==
  IF n = 0 THEN {<<>>}
  ELSE LET shorter == SeqsUpTo(S, n - 1)
       IN  shorter \cup {Append(s, x) : s \in shorter, x \in S}

\* files of up to MaxLen plain lines; only the last line may lack a terminator
PlainFiles ==
  LET full == [text : PlainTexts, eol : Terminators]
      last == [text : PlainTexts, eol : {""}]
      body == SeqsUpTo(full, MaxLen - 1)
  IN  body \cup {Append(s, x) : s \in body, x \in full \cup last}

FilesFrom(bases) == UNION {{LnAll(s) : s \in Drops(t, MaxDrop)} : t \in bases}

EmissionsInputs ==
  FilesFrom(StructBlocks \cup ConfigBlocks \cup CtorBlocks \cup ListSections
              \cup SummarySections \cup DepsCallSections)
    \cup PlainFiles

ComplianceInputs ==
  FilesFrom(DepsBlocks \cup ReportSections \cup ReadySections) \cup PlainFiles

File(data) == [exists |-> TRUE, data |-> data]
NoFile == [exists |-> FALSE, data |-> <<>>]

DefaultEmissions ==
  File(LnAll(<<"\tscope2Records, _ := h.deps.Scope2Calculator.CalculateBatch(ctx, emissionsActivities)",
               "\tvar scope2Total float64",
               "\tfor _, rec := range scope2Records {",
               "\t\tscope2Total += rec.EmissionsTonnesCO2e",
               "\t}">>))
DefaultCompliance ==
  File(LnAll(<<"type ComplianceHandlerDeps struct {",
               "\tScope2Calculator *emissions.Scope2Calculator",
               "}">>))

Init ==
  /\ \/ \E d \in EmissionsInputs :
          disk = (EmissionsFile :> File(d)) @@ (ComplianceFile :> DefaultCompliance)
     \/ \E d \in ComplianceInputs :
          disk = (EmissionsFile :> DefaultEmissions) @@ (ComplianceFile :> File(d))
     \/ disk = (EmissionsFile :> NoFile) @@ (ComplianceFile :> DefaultCompliance)
     \/ disk = (EmissionsFile :> DefaultEmissions) @@ (ComplianceFile :> NoFile)
  /\ linesep \in {"\n", "\r\n"}
  /\ proc = "none"
  /\ stage = "none"
  /\ pc = "idle"
  /\ error = "none"
  /\ lines = <<>>
  /\ output = <<>>
  /\ i = 0
  /\ ghost = NoGhost
  /\ before = NoFile
  /\ runs = 0
  /\ prevSession = "none"
  /\ prevOut = <<>>
  /\ report = <<>>

Next ==
  \/ \E p \in Scripts : Launch(p)
  \/ NextSession
  \/ OpenForWrite
  \/ WriteBack
  \/ WriteFails

Spec == Init /\ [][Next]_vars

\* ------------------------------------------------------------------------
\* Properties
\* ------------------------------------------------------------------------
\* the scan of the current session ran to the end of the list
Scanned == pc \in {"scanned", "writing", "returned", "done"} \/ error = "OSError"

\* the session has written its output back
Written == pc \in {"returned", "done"}

\* the anchor texts of the rules of each session (the outer if of each rule)
Anchors(s) ==
  CASE s = "complete" ->
         {"type EmissionsHandler struct {",
          "type EmissionsHandlerConfig struct {",
          "\treturn &EmissionsHandler{",
          "\t// Calculate emissions for all scopes",
          "\tresponse := make([]EmissionRecord, 0, len(records))",
          "\tfor i, rec := range records {",
          "\tpageInfo := responders.NewPageInfo(filter.Page, filter.PerPage, len(records))",
          "\trecords, err := h.calculator.CalculateBatch(ctx, emissionsActivities)",
          "\t\tScope1TonsCO2e: 0, // TODO",
          "\t\tScope1TonsCO2e: scope1Total,",
          "\t\tScope3TonsCO2e: 0, // TODO",
          "\t\tScope3TonsCO2e: scope3Total,",
          "\t\tTotalTonsCO2e:  scope2Total,",
          "\t\tActivityCount:  len(records),"}
    [] s = "final" ->
         {"type EmissionsHandler struct {",
          "type EmissionsHandlerConfig struct {",
          "return &EmissionsHandler{",
          "records, err := h.calculator.CalculateBatch(ctx, emissionsActivities)",
          "Scope1TonsCO2e: 0, // TODO",
          "Scope3TonsCO2e: 0, // TODO",
          "TotalTonsCO2e:  scope2Total,"}
    [] s = "update_compliance_handler" ->
         {"type ComplianceHandlerDeps struct {",
          "scope2Records, err := deps.Scope2Calculator.CalculateBatch",
          "TotalScope1Tons: 0, // TODO",
          "TotalScope3Tons: 0, // TODO",
          "\"scope1Ready\": false, // TODO",
          "\"scope3Ready\": false, // TODO",
          "scope2Records, _ := deps.Scope2Calculator.CalculateBatch"}
    [] s = "update_emissions_handler" ->
         {"scope2Records, _ := h.deps.Scope2Calculator.CalculateBatch",
          "Scope1TonsCO2e: 0, // TODO",
          "Scope3TonsCO2e: 0, // TODO"}
    [] s = "integrate_emissions" ->
         {"scope2Records, _ := h.deps.Scope2Calculator.CalculateBatch",
          "Scope1TonsCO2e: 0, // TODO: Implement Scope 1",
          "Scope3TonsCO2e: 0, // TODO: Implement Scope 3"}

NoAnchor(s, ls) == \A k \in DOMAIN ls : \A p \in Anchors(s) : ~Contains(p, ls[k])

\* the position in output of the copy of lines[k]
OutIndex(k) == CHOOSE j \in DOMAIN output : ghost.tag[j] = [from |-> k, rule |-> "copy"]

\* a line that declares or initialises one of the variant calculators
VariantField(line) ==
  \/ Contains("Scope1Calculator", line)
  \/ Contains("Scope2Calculator", line)
  \/ Contains("Scope3Calculator", line)

\* the three variant fields of the block that opener opens, in declared order
ExpectedFields(opener) ==
  IF Contains("type EmissionsHandler struct {", opener)
  THEN <<"\tscope1Calculator *emissions.Scope1Calculator",
         "\tscope2Calculator *emissions.Scope2Calculator",
         "\tscope3Calculator *emissions.Scope3Calculator">>
  ELSE IF Contains("return &EmissionsHandler{", opener)
  THEN <<"\t\tscope1Calculator: cfg.Scope1Calculator,",
         "\t\tscope2Calculator: cfg.Scope2Calculator,",
         "\t\tscope3Calculator: cfg.Scope3Calculator,">>
  ELSE <<"\tScope1Calculator *emissions.Scope1Calculator",
         "\tScope2Calculator *emissions.Scope2Calculator",
         "\tScope3Calculator *emissions.Scope3Calculator">>

\* the variant fields that the output declares in the block of region r
BlockFields(r) ==
  SelectSeq(SubSeq(output, OutIndex(r.start) + 1, OutIndex(r.end) - 1), VariantField)

\* number of '{' and of '}' in a line
Opens(line) == IF line.text \in DOMAIN Openers THEN Openers[line.text] ELSE 0
Closes(line) == IF line.text \in DOMAIN Closers THEN Closers[line.text] ELSE 0

\* '{' minus '}' over lines[a..b]
RECURSIVE Balance(_, _, _)
Balance(ls, a, b) ==
  IF b < a THEN 0 ELSE Balance(ls, a, b - 1) + Opens(At(ls, b)) - Closes(At(ls, b))

\* the ways in which a rule takes a line out on purpose
Explicit == {"anchor", "field", "var", "placeholder", "dedup", "aggregation"}

\* the rules that resolve a placeholder, and for each line they produce the
\* declaration of the accumulator it refers to
PlaceholderRules == {"scope1", "scope3", "total", "scope1Ready", "scope3Ready"}

Declaration ==
  ("\t\tScope1TonsCO2e: scope1Total," :> "\tvar scope1Total, scope2Total, scope3Total float64") @@
  ("\t\tScope3TonsCO2e: scope3Total," :> "\tvar scope1Total, scope2Total, scope3Total float64") @@
  ("\t\tTotalTonsCO2e:  scope1Total + scope2Total + scope3Total," :>
     "\tvar scope1Total, scope2Total, scope3Total float64") @@
  ("\t\t\tTotalScope1Tons: scope1TotalTons," :>
     "\t\tvar scope1TotalTons, scope2TotalTons, scope3TotalTons float64") @@
  ("\t\t\tTotalScope3Tons: scope3TotalTons," :>
     "\t\tvar scope1TotalTons, scope2TotalTons, scope3TotalTons float64") @@
  ("\t\t\t\"scope1Ready\": scope1Total > 0," :>
     "\t\tvar scope1Total, scope2Total, scope3Total float64") @@
  ("\t\t\t\"scope3Ready\": scope3Total > 0," :>
     "\t\tvar scope1Total, scope2Total, scope3Total float64")

\* C1: fix_emissions_complete.py run on its own output writes that output
\* again, line for line: the second scan ends without an error and its
\* output equals the lines it read.
C1_Idempotent ==
  (stage = "complete" /\ prevSession = "complete" /\ lines = prevOut /\ pc # "idle")
    => (error # "IndexError" /\ output = lines)

\* C2: after the field fan-out of a struct or constructor block that had at
\* least one variant field, the block in the output declares exactly the
\* three variant fields, once each, in the order Scope1, Scope2, Scope3.
C2_FanOutComplete ==
  Scanned =>
    \A r \in ghost.regions :
      (\E k \in (r.start + 1)..(r.end - 1) : VariantField(At(lines, k)))
        => BlockFields(r) = LnAll(ExpectedFields(At(lines, r.start)))

\* C3: every input line that no rule takes out on purpose is in the output
\* unchanged, and the lines copied keep their order.
C3_BytePreservation ==
  Scanned =>
    /\ \A k \in 0..(Len(lines) - 1) :
         \/ \E w \in Explicit : <<k, w>> \in ghost.replaced
         \/ \E j \in DOMAIN output :
              /\ ghost.tag[j] = [from |-> k, rule |-> "copy"]
              /\ output[j] = At(lines, k)
    /\ \A j1, j2 \in DOMAIN output :
         (j1 < j2 /\ ghost.tag[j1].rule = "copy" /\ ghost.tag[j2].rule = "copy")
           => ghost.tag[j1].from < ghost.tag[j2].from

\* C4: the line taken as the end of a block is the first line at which the
\* count of '{' minus '}' since the opener is zero; the count is positive on
\* every line before it.
C4_BalancedExtraction ==
  Scanned =>
    \A r \in ghost.regions :
      /\ Balance(lines, r.start, r.end) = 0
      /\ \A k \in r.start..(r.end - 1) : Balance(lines, r.start, k) > 0

\* C5: when a block or a copied loop that a rule bounds does not close
\* before the end of the list, the session ends in an error and the file on
\* disk is as the session found it.
C5_AbortOnDamage ==
  (stage # "none" /\ ghost.unclosed # {})
    => (pc = "aborted" /\ error = "IndexError" /\ disk[Target(stage)] = before)

\* C6: an output line that a placeholder rule rewrote to refer to an
\* accumulator comes after an output line, emitted by the session, that
\* declares the accumulator.
C6_DeclaredBeforeUse ==
  Scanned =>
    \A j \in DOMAIN output :
      (/\ ghost.tag[j].rule \in PlaceholderRules
       /\ output[j] # At(lines, ghost.tag[j].from)
       /\ output[j].text \in DOMAIN Declaration)
        => \E k \in 1..(j - 1) :
             /\ ghost.tag[k].from = -1
             /\ output[k].text = Declaration[output[j].text]

\* C7: a session on a file in which no line contains an anchor of its rules
\* ends without an error, and the list it writes back is the list it read.
C7_AnchorAbsentNoOp ==
  (stage # "none" /\ before.exists /\ NoAnchor(stage, lines))
    => /\ error # "IndexError"
       /\ output = lines
       /\ Written => disk[Target(stage)].data = WriteLines(lines, linesep)

C7_Witness ==
  /\ stage = "complete"
  /\ pc = "done"
  /\ NoAnchor(stage, lines)
  /\ Len(lines) >= 2

\* C8: when no rule fired, the file written back has every line's text and
\* terminator as the file read.
C8_RoundTrip ==
  (Written /\ ghost.fired = {} /\ output = lines) => disk[Target(stage)] = before

\* C9: at every point of a session the target file on disk is the complete
\* original or the complete output, never empty or cut short.
C9_AtomicWriteBack ==
  stage # "none" =>
    \/ disk[Target(stage)] = before
    \/ disk[Target(stage)] = File(WriteLines(output, linesep))

\* C10: when fix_handlers_robust.py has ended, it has run the session for
\* emissions_handler.go, also when the session for compliance_handler.go
\* ended in an error.
C10_FailureIsolation ==
  (proc = "fix_handlers_robust" /\ pc \in {"done", "aborted"})
    => stage = "update_emissions_handler"

\* the rules that put into the output a line that differs from the input
\* line it stands for, or a line of their own
ChangedRules ==
  {ghost.tag[j].rule : j \in {k \in DOMAIN output :
      /\ ghost.tag[k].rule # "copy"
      /\ \/ ghost.tag[k].from = -1
         \/ output[k] # At(lines, ghost.tag[k].from)}}

\* the rules whose effect a printed line names as applied
Effect ==
  ("   - Updated all calculator references" :> {"struct", "config", "constructor", "summary"}) @@
  ("   - Combined scope records correctly" :> {"combine"}) @@
  ("   - Fixed all 'records' variable references" :> {"response", "range", "pageInfo", "count"}) @@
  ("   - Added Scope1Calculator and Scope3Calculator fields" :> {"struct", "config"}) @@
  ("   - Updated constructor to initialize all three calculators" :> {"constructor"}) @@
  ("   - Removed TODO comments" :> {"scope1", "scope3"}) @@
  ("   - Updated EmissionsSummary to include all scopes" :> {"total"})

\* C11: a line of the report that names a rule's effect as applied is
\* printed only by a session in which one of the rules with that effect
\* changed the buffer.
C11_ReportAccuracy ==
  (Written /\ stage \in {"complete", "final"}) =>
    \A k \in DOMAIN report :
      report[k] \in DOMAIN Effect => Effect[report[k]] \cap ChangedRules # {}

\* the lines that define one of the collections scope1Records, scope2Records,
\* scope3Records
DefinesCollection(line) ==
  line.text \in
    {"\tscope1Records, _ := h.scope1Calculator.CalculateBatch(ctx, emissionsActivities)",
     "\tscope2Records, err := h.scope2Calculator.CalculateBatch(ctx, emissionsActivities)",
     "\tscope3Records, _ := h.scope3Calculator.CalculateBatch(ctx, emissionsActivities)",
     "\tscope1Records, _ := h.deps.Scope1Calculator.CalculateBatch(ctx, emissionsActivities)",
     "\tscope2Records, _ := h.deps.Scope2Calculator.CalculateBatch(ctx, emissionsActivities)",
     "\tscope3Records, _ := h.deps.Scope3Calculator.CalculateBatch(ctx, emissionsActivities)"}

\* the combination step that Step 4 of fix_emissions_complete.py emits
Combination ==
  <<"",
    "\t// Combine all scope records",
    "\tallRecords := make([]emissions.EmissionRecord, 0, len(scope1Records)+len(scope2Records)+len(scope3Records))",
    "\tallRecords = append(allRecords, scope1Records...)",
    "\tallRecords = append(allRecords, scope2Records...)",
    "\tallRecords = append(allRecords, scope3Records...)",
    "">>

\* the output lines that Step 4 emitted
CombineLines ==
  {j \in DOMAIN output : ghost.tag[j] = [from |-> -1, rule |-> "combine"]}

\* the three appends come in the order scope1Records, scope2Records,
\* scope3Records, one right after the other
AppendsInOrder ==
  \A j \in CombineLines :
    output[j].text = Combination[4]
      => /\ j + 2 <= Len(output)
         /\ output[j + 1].text = Combination[5]
         /\ output[j + 2].text = Combination[6]
         /\ {j + 1, j + 2} \subseteq CombineLines

\* C12 as stated: when Step 4 of fix_emissions_complete.py has fired, the
\* appends are in the order 1, 2, 3 and every line of the combination step
\* comes after every output line that defines one of the collections.
C12_CombineAfterAllDefinitions ==
  (Scanned /\ stage = "complete") =>
    /\ AppendsInOrder
    /\ \A j \in CombineLines : \A k \in DOMAIN output :
         DefinesCollection(output[k]) => k < j

\* C12, amended: when Step 4 of fix_emissions_complete.py has fired, the
\* appends are in the order 1, 2, 3 and the combination step stands right
\* before the 'Convert to response format' line of its section, after every
\* line of the section (from the anchor on) that defines one of the
\* collections.
C12_CombineAfterSection ==
  (Scanned /\ stage = "complete") =>
    /\ AppendsInOrder
    /\ \A s \in ghost.sections :
         s.rule = "combine" =>
           LET c == OutIndex(s.end) IN
           /\ c > Len(Combination)
           /\ \A n \in DOMAIN Combination :
                /\ output[c - Len(Combination) - 1 + n].text = Combination[n]
                /\ (c - Len(Combination) - 1 + n) \in CombineLines
           /\ \A k \in s.start..(s.end - 1) :
                (DefinesCollection(At(lines, k)) /\ <<k, "aggregation">> \notin ghost.replaced)
                  => OutIndex(k) < c - Len(Combination)

C12_Witness ==
  /\ stage = "complete"
  /\ pc = "done"
  /\ \E s \in ghost.sections :
       /\ s.rule = "combine"
       /\ \E k \in s.start..(s.end - 1) : DefinesCollection(At(lines, k))
  /\ \E k \in DOMAIN output : DefinesCollection(output[k])

\* the anchors of the placeholder rules of each session
PlaceholderAnchors(s) ==
  CASE s = "complete" -> {"\t\tScope1TonsCO2e: 0, // TODO", "\t\tScope3TonsCO2e: 0, // TODO"}
    [] s = "final" -> {"Scope1TonsCO2e: 0, // TODO", "Scope3TonsCO2e: 0, // TODO"}
    [] s = "update_compliance_handler" ->
         {"TotalScope1Tons: 0, // TODO", "TotalScope3Tons: 0, // TODO",
          "\"scope1Ready\": false, // TODO", "\"scope3Ready\": false, // TODO"}
    [] s = "update_emissions_handler" ->
         {"Scope1TonsCO2e: 0, // TODO", "Scope3TonsCO2e: 0, // TODO"}
    [] OTHER -> {}

\* a placeholder line as resolved: the accumulator in place of the literal,
\* nothing left of the annotation
Resolved ==
  {"\t\tScope1TonsCO2e: scope1Total,",
   "\t\tScope3TonsCO2e: scope3Total,",
   "\t\t\tTotalScope1Tons: scope1TotalTons,",
   "\t\t\tTotalScope3Tons: scope3TotalTons,",
   "\t\t\t\"scope1Ready\": scope1Total > 0,",
   "\t\t\t\"scope3Ready\": scope3Total > 0,"}

\* C13: every input line that the anchor of a placeholder rule matches is,
\* in the output, a line that refers to the accumulator and has nothing
\* left of the TODO annotation.
C13_PlaceholderResolved ==
  Scanned =>
    \A k \in 0..(Len(lines) - 1) :
      (\E p \in PlaceholderAnchors(stage) : Contains(p, At(lines, k)))
        => \E j \in DOMAIN output :
             /\ ghost.tag[j].from = k
             /\ output[j].text \in Resolved

\* the openers of the struct and constructor blocks that each session bounds
BlockOpeners(s) ==
  CASE s = "complete" ->
         {"type EmissionsHandler struct {", "type EmissionsHandlerConfig struct {",
          "\treturn &EmissionsHandler{"}
    [] s = "final" ->
         {"type EmissionsHandler struct {", "type EmissionsHandlerConfig struct {",
          "return &EmissionsHandler{"}
    [] s = "update_compliance_handler" -> {"type ComplianceHandlerDeps struct {"}
    [] OTHER -> {}

\* every block opener in ls has a line with '}' after it
BlocksClose(s, ls) ==
  \A k \in 0..(Len(ls) - 1) :
    (\E p \in BlockOpeners(s) : Contains(p, At(ls, k)))
      => \E m \in (k + 1)..(Len(ls) - 1) : Contains("}", At(ls, m))

\* C14: on a file in which every struct and constructor block closes, the
\* scan raises no error, in whatever state of migration the file is.
C14_RuleFailuresNonFatal ==
  (stage # "none" /\ before.exists /\ BlocksClose(stage, lines)) => error # "IndexError"

\* the input lines the scan has appended, replaced or left out
Consumed ==
  {ghost.tag[j].from : j \in DOMAIN output} \cup {r[1] : r \in ghost.replaced}

\* the cursor at the start of each iteration of the main loop, and at its end
Cursor == Append(ghost.trail, i)

\* the cursor never decreases and every iteration of the main loop
\* increases it by at least one
CursorAdvances ==
  \A t \in 1..(Len(Cursor) - 1) : Cursor[t] < Cursor[t + 1]

\* C15: the cursor advances in every iteration of the main loop, and when
\* the scan has ended it is at the line right after the last line a rule
\* consumed.
C15_CursorProgress ==
  (Scanned /\ stage # "integrate_emissions") =>
    /\ CursorAdvances
    /\ \A k \in 0..(i - 1) : k \in Consumed
    /\ i - 1 \in Consumed \/ i = 0

\* the lines of section s that Step 4 left out as aggregation
Removed(s) ==
  {k \in s.start..(s.end - 1) : <<k, "aggregation">> \in ghost.replaced}

RECURSIVE SumOver(_, _)
SumOver(f(_), S) ==
  IF S = {} THEN 0
  ELSE LET k == CHOOSE x \in S : TRUE IN f(k) + SumOver(f, S \ {k})

\* C16: when Step 4 of fix_emissions_complete.py meets the declaration
\* 'var scope1Total, scope2Total, scope3Total float64' in its section, the
\* lines it removes hold as many '{' as '}', and no 'scope...Total +=' line
\* of the section is in the output.
C16_AggregationRemoved ==
  (Scanned /\ stage = "complete") =>
    \A s \in ghost.sections :
      (/\ s.rule = "combine"
       /\ \E k \in s.start..(s.end - 1) :
            Contains("var scope1Total, scope2Total, scope3Total float64", At(lines, k)))
        => LET opens(k) == Opens(At(lines, k))
               closes(k) == Closes(At(lines, k))
           IN  /\ SumOver(opens, Removed(s)) = SumOver(closes, Removed(s))
               /\ \A k \in s.start..(s.end - 1) :
                    Contains("Total +=", At(lines, k)) => k \in Removed(s)

\* the single-variant call
SingleCall == "records, err := h.calculator.CalculateBatch(ctx, emissionsActivities)"

\* C17: the output of fix_emissions_handler_final.py has no line with the
\* single-variant call, and every input line with that call is replaced by
\* the rule as its anchor.
C17_EveryCallSiteFannedOut ==
  (Scanned /\ stage = "final") =>
    /\ \A j \in DOMAIN output : ~Contains(SingleCall, output[j])
    /\ \A k \in 0..(Len(lines) - 1) :
         Contains(SingleCall, At(lines, k)) => <<k, "anchor">> \in ghost.replaced

\* the input is in the canonical form: every line with the call of
\* h.deps.Scope2Calculator starts the five lines of old_scope2_calc, exactly
\* and at one tab, and every placeholder line has the annotation
\* 'TODO: Implement Scope 1' or 'TODO: Implement Scope 3'
Canonical(ls) ==
  /\ \A k \in 0..(Len(ls) - 1) :
       Contains("scope2Records, _ := h.deps.Scope2Calculator.CalculateBatch", At(ls, k))
         => /\ k + Len(OldScope2Calc) <= Len(ls)
            /\ \A n \in DOMAIN OldScope2Calc : At(ls, k + n - 1).text = OldScope2Calc[n]
  /\ \A k \in 0..(Len(ls) - 1) :
       /\ Contains("Scope1TonsCO2e: 0, // TODO", At(ls, k))
            => Contains("Scope1TonsCO2e: 0, // TODO: Implement Scope 1", At(ls, k))
       /\ Contains("Scope3TonsCO2e: 0, // TODO", At(ls, k))
            => Contains("Scope3TonsCO2e: 0, // TODO: Implement Scope 3", At(ls, k))

====
